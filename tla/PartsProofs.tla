----------------------------- MODULE PartsProofs -----------------------------
(***************************************************************************)
(* Theorems about components that share no state, for any value of their   *)
(* constants: the task graph (TaskGraph), file leases and the paths they   *)
(* are for (FileLeases), the desktop application with its worker           *)
(* (DesktopWorker), the session of a managed daemon (ManagedLink), the    *)
(* process group of a command-line agent (CliProcess), and the owned       *)
(* repositories (OwnedGit) and work (OwnedWorktree) of a computer.         *)
(***************************************************************************)
EXTENDS TaskGraph, FileLeases, DesktopWorker, ManagedLink, CliProcess, OwnedWorktree,
        FiniteSetTheorems, WellFoundedInduction, SequenceTheorems, TLAPS

-------------------------------------------------------------------------------
(* Lemmas *)

\* A set of places has a first one.
LEMMA FirstPlace ==
  ASSUME NEW S, S \subseteq Nat, S # {}
  PROVE  \E i \in S : \A n \in S : i <= n
<1> DEFINE R == {ss \in Nat \X Nat : ss[1] < ss[2]}
<1>1. IsWellFoundedOn(R, Nat)
  BY NatLessThanWellFounded DEF OpToRel
<1> HIDE DEF R
<1>2. PICK i \in S : \A n \in S : ~(<<n, i>> \in R)
  BY <1>1, WFMin
<1>3. \A n \in S : ~(n < i)
  BY <1>2 DEF R
<1> QED
  BY <1>3

-------------------------------------------------------------------------------
(* TaskGraph: types *)

Lives == {"none", "backlog", "open", "done", "cancelled"}
Evidence == {"artifact", "contract"}
GraphEdges == [from : Tasks, to : Tasks, type : EdgeTypes]

GraphTypeOK ==
  /\ status \in [Tasks -> Lives]
  /\ criteria \subseteq Tasks
  /\ edges \subseteq GraphEdges
  /\ evidence \in [Tasks -> SUBSET Evidence]
  /\ gate \in [Tasks -> SUBSET GraphEdges]
  /\ touched \subseteq Tasks

\* Every edge joins tasks that exist.
EdgesJoinTasks == \A e \in edges : status[e.from] # "none" /\ status[e.to] # "none"

\* The inductive invariant.  That no waiting is circular follows from it.
GraphInv ==
  GraphTypeOK /\ EdgesJoinTasks /\ Acyclic /\ OpenedWithReason /\ NoneForgotten

-------------------------------------------------------------------------------
(* TaskGraph: what the search visits *)

\* What the search reaches contains its start and is closed under edges.
LEMMA ReachedTasks ==
  ASSUME NEW t \in Tasks, NEW E, E \subseteq GraphEdges
  PROVE  /\ Reached(t, E) \subseteq Tasks
         /\ t \in Reached(t, E)
         /\ \A e \in E : e.from \in Reached(t, E) => e.to \in Reached(t, E)
  BY DEF Reached, GraphEdges

\* The search goes on from whatever it has reached.
LEMMA ReachedFurther ==
  ASSUME NEW E, E \subseteq GraphEdges, NEW e \in E, NEW u \in Reached(e.to, E)
  PROVE  u \in Reached(e.from, E)
<1>1. e.from \in Tasks /\ e.to \in Tasks
  BY DEF GraphEdges
<1>2. e.to \in Reached(e.from, E)
  BY <1>1, ReachedTasks
<1> SUFFICES ASSUME NEW S \in SUBSET Tasks, e.from \in S,
                    \A x \in E : x.from \in S => x.to \in S
             PROVE  u \in S
  BY DEF Reached
<1>3. e.to \in S
  OBVIOUS
<1> QED
  BY <1>3 DEF Reached

\* Whatever integers order the ends of the edges, there are places in
\* 1 .. Cardinality(Tasks) that do: the number of tasks before, and one.
LEMMA PlacesExist ==
  ASSUME NEW E, E \subseteq GraphEdges, NEW p \in [Tasks -> Int],
         \A e \in E : p[e.from] < p[e.to]
  PROVE  \E place \in [Tasks -> 1 .. Cardinality(Tasks)] :
           \A e \in E : place[e.from] < place[e.to]
<1> DEFINE before(t) == {u \in Tasks : p[u] < p[t]}
           place == [t \in Tasks |-> Cardinality(before(t)) + 1]
<1>0. IsFiniteSet(Tasks) /\ Cardinality(Tasks) \in Nat
  BY GraphAssumption, FS_CardinalityType
<1>1. ASSUME NEW t \in Tasks
      PROVE  /\ IsFiniteSet(before(t)) /\ Cardinality(before(t)) \in Nat
             /\ Cardinality(before(t)) < Cardinality(Tasks)
  <2>1. before(t) \subseteq Tasks /\ t \notin before(t)
    BY <1>1
  <2>2. before(t) # Tasks
    BY <2>1, <1>1
  <2> HIDE DEF before
  <2> QED
    BY <1>0, <2>1, <2>2, FS_Subset, FS_CardinalityType
<1>2. ASSUME NEW e \in E
      PROVE  Cardinality(before(e.from)) < Cardinality(before(e.to))
  <2>0. e.from \in Tasks /\ e.to \in Tasks /\ p[e.from] \in Int /\ p[e.to] \in Int
    BY <1>2 DEF GraphEdges
  <2>1. before(e.from) \subseteq before(e.to)
    BY <1>2, <2>0
  <2>2. e.from \in before(e.to) /\ e.from \notin before(e.from)
    BY <1>2, <2>0
  <2>3. IsFiniteSet(before(e.to))
    BY <1>1, <2>0
  <2>4. /\ Cardinality(before(e.from)) \in Nat
        /\ Cardinality(before(e.to)) \in Nat
    BY <1>1, <2>0
  <2> HIDE DEF before
  <2>5. before(e.from) # before(e.to)
    BY <2>2
  <2> QED
    BY <2>1, <2>3, <2>4, <2>5, FS_Subset
<1>3. place \in [Tasks -> 1 .. Cardinality(Tasks)]
  <2> HIDE DEF before
  <2> QED
    BY <1>0, <1>1
<1>4. \A e \in E : place[e.from] < place[e.to]
  <2> TAKE e \in E
  <2>1. e.from \in Tasks /\ e.to \in Tasks
    BY DEF GraphEdges
  <2> HIDE DEF before
  <2> QED
    BY <2>1, <1>1, <1>2
<1> HIDE DEF place
<1> QED
  BY <1>3, <1>4

\* An edge that closes no cycle leaves an order: what its end leads to moves up.
LEMMA OrderSurvivesEdge ==
  ASSUME edges \subseteq GraphEdges, Acyclic, NEW e \in GraphEdges,
         ~WouldCreateCycle(edges, e.from, e.to), edges' = edges \cup {e}
  PROVE  Acyclic'
<1> DEFINE N == Cardinality(Tasks)
           D == Reached(e.to, edges)
<1>0. N \in Nat
  BY GraphAssumption, FS_CardinalityType
<1>1. e.from \in Tasks /\ e.to \in Tasks
  BY DEF GraphEdges
<1>2. e.from \notin D /\ e.to \in D /\ \A x \in edges : x.from \in D => x.to \in D
  BY <1>1, ReachedTasks DEF WouldCreateCycle
<1> HIDE DEF N, D
<1>3. PICK place \in [Tasks -> 1 .. N] : \A x \in edges : place[x.from] < place[x.to]
  BY DEF Acyclic, N
<1> DEFINE p == [t \in Tasks |-> IF t \in D THEN place[t] + N ELSE place[t]]
<1>4. p \in [Tasks -> Int]
  BY <1>0, <1>3
<1>5. ASSUME NEW x \in edges \cup {e}  PROVE  p[x.from] < p[x.to]
  <2>1. x.from \in Tasks /\ x.to \in Tasks
    BY <1>1, <1>5 DEF GraphEdges
  <2>2. place[x.from] \in 1 .. N /\ place[x.to] \in 1 .. N
    BY <2>1, <1>3
  <2>3. CASE x \in edges
    BY <2>1, <2>2, <2>3, <1>0, <1>2, <1>3
  <2>4. CASE x = e
    BY <2>1, <2>2, <2>4, <1>0, <1>2
  <2> QED
    BY <1>5, <2>3, <2>4
<1>6. edges \cup {e} \subseteq GraphEdges
  OBVIOUS
<1> HIDE DEF p
<1> QED
  BY <1>4, <1>5, <1>6, PlacesExist DEF Acyclic

\* So does the removal of edges.
LEMMA OrderSurvivesLess ==
  ASSUME Acyclic, edges' \subseteq edges  PROVE  Acyclic'
  BY DEF Acyclic

-------------------------------------------------------------------------------
(* TaskGraph: steps *)

\* The empty graph.
LEMMA GraphInitOK == GraphInit => GraphInv
<1> SUFFICES ASSUME GraphInit  PROVE  GraphInv
  OBVIOUS
<1>1. GraphTypeOK /\ EdgesJoinTasks
  BY DEF GraphInit, GraphTypeOK, EdgesJoinTasks, Lives
<1>2. Acyclic
  <2> DEFINE p == [t \in Tasks |-> 0]
  <2>1. p \in [Tasks -> Int] /\ edges = {}
    BY DEF GraphInit
  <2>2. \A e \in edges : p[e.from] < p[e.to]
    BY <2>1
  <2> QED
    BY <2>1, <2>2, PlacesExist DEF Acyclic
<1>3. OpenedWithReason /\ NoneForgotten
  BY DEF GraphInit, OpenedWithReason, NoneForgotten, WaitingForNothing
<1> QED
  BY <1>1, <1>2, <1>3 DEF GraphInv

\* A new task is joined by no edge.
LEMMA CreateTaskOK ==
  ASSUME GraphInv, NEW t \in Tasks, NEW b \in BOOLEAN, CreateTask(t, b)
  PROVE  GraphInv'
<1> USE DEF GraphInv, CreateTask
<1>1. GraphTypeOK'
  BY DEF GraphTypeOK, Lives
<1>2. EdgesJoinTasks'
  BY DEF EdgesJoinTasks, GraphTypeOK, GraphEdges
<1>3. Acyclic'
  BY OrderSurvivesLess
<1>4. OpenedWithReason'
  BY DEF OpenedWithReason, GraphTypeOK, GraphEdges
<1>5. NoneForgotten'
  <2> SUFFICES ASSUME NEW d \in WaitingForNothing(edges)'  PROVE  d \in touched
    BY DEF NoneForgotten
  <2>1. d # t
    BY DEF WaitingForNothing, Gating, Incoming, EdgesJoinTasks
  <2>2. d \in WaitingForNothing(edges)
    BY <2>1 DEF WaitingForNothing, Satisfied, Incoming, Gating, GraphTypeOK, GraphEdges
  <2> QED
    BY <2>2 DEF NoneForgotten
<1> QED
  BY <1>1, <1>2, <1>3, <1>4, <1>5

\* New edges that leave an order keep the invariant (createDependency, deleteDependency).
LEMMA EdgesChangeOK ==
  ASSUME GraphInv, NEW E, EdgesChange(E), E \subseteq GraphEdges, Acyclic',
         \A e \in E : status[e.from] # "none" /\ status[e.to] # "none"
  PROVE  GraphInv'
<1> USE DEF GraphInv, EdgesChange
<1>1. GraphTypeOK'
  BY DEF GraphTypeOK, WaitingForNothing
<1>2. EdgesJoinTasks'
  BY DEF EdgesJoinTasks
<1>4. OpenedWithReason'
  BY DEF OpenedWithReason
<1>5. NoneForgotten'
  <2> SUFFICES ASSUME NEW d \in WaitingForNothing(edges)'  PROVE  d \in touched'
    BY DEF NoneForgotten
  <2>1. d \in WaitingForNothing(E) /\ d \in Tasks
    BY DEF WaitingForNothing, Satisfied, Incoming, Gating, GraphTypeOK
  <2> QED
    BY <2>1 DEF NoneForgotten
<1> QED
  BY <1>1, <1>2, <1>4, <1>5

\* createDependency adds an edge only where the search found no way back.
LEMMA CreateDependencyOK ==
  ASSUME GraphInv, NEW a \in Tasks, NEW b \in Tasks, NEW type \in EdgeTypes,
         CreateDependency(a, b, type)
  PROVE  GraphInv'
<1> DEFINE e == [from |-> a, to |-> b, type |-> type]
<1>1. e \in GraphEdges /\ e.from = a /\ e.to = b
  BY DEF GraphEdges
<1>2. EdgesChange(edges \cup {e}) /\ ~WouldCreateCycle(edges, e.from, e.to)
      /\ status[a] # "none" /\ status[b] # "none"
  BY DEF CreateDependency
<1> HIDE DEF e
<1>3. Acyclic'
  BY <1>1, <1>2, OrderSurvivesEdge DEF GraphInv, GraphTypeOK, EdgesChange
<1> QED
  BY <1>1, <1>2, <1>3, EdgesChangeOK DEF GraphInv, GraphTypeOK, EdgesJoinTasks

\* deleteDependency takes an edge, and the order stays.
LEMMA DeleteDependencyOK ==
  ASSUME GraphInv, NEW e \in edges, DeleteDependency(e)
  PROVE  GraphInv'
<1>1. EdgesChange(edges \ {e})
  BY DEF DeleteDependency
<1>2. Acyclic'
  BY <1>1, OrderSurvivesLess DEF GraphInv, EdgesChange
<1> QED
  BY <1>1, <1>2, EdgesChangeOK DEF GraphInv, GraphTypeOK, EdgesJoinTasks

\* Tasks T leave the backlog, with all that they wait for done.
LEMMA OpeningOK ==
  ASSUME GraphInv, NEW T, T \subseteq Tasks, OpenedBy(T, status'),
         UNCHANGED <<criteria, edges, evidence>>, status' \in [Tasks -> Lives],
         \A t \in T : Satisfied(Incoming(t, edges), status'),
         \A t \in Tasks : /\ status'[t] = "none" => status[t] = "none"
                          /\ status[t] = "done" => status'[t] = "done"
                          /\ status'[t] = "backlog" => status[t] = "backlog",
         \A d \in WaitingForNothing(edges)' : d \in WaitingForNothing(edges)
  PROVE  GraphInv'
<1> USE DEF GraphInv, OpenedBy
<1>1. GraphTypeOK'
  BY DEF GraphTypeOK, Gating, Incoming
<1>2. EdgesJoinTasks'
  BY DEF EdgesJoinTasks, GraphTypeOK, GraphEdges
<1>3. Acyclic'
  BY OrderSurvivesLess
<1>4. OpenedWithReason'
  <2> SUFFICES ASSUME NEW t \in Tasks, NEW e \in gate'[t]
               PROVE  /\ status'[e.from] = "done"
                      /\ e.type = "artifact_required" => "artifact" \in evidence[e.from]
                      /\ e.type = "contract_required" => "contract" \in evidence[e.from]
    BY DEF OpenedWithReason
  <2>1. CASE t \in T
    BY <2>1 DEF Gating, Satisfied, RequiredEvidenceKind
  <2>2. CASE t \notin T
    BY <2>2 DEF OpenedWithReason, GraphTypeOK, GraphEdges
  <2> QED
    BY <2>1, <2>2
<1>5. NoneForgotten'
  BY DEF NoneForgotten, WaitingForNothing
<1> QED
  BY <1>1, <1>2, <1>3, <1>4, <1>5

\* A task is made ready once all it waits for is done.
LEMMA ReadyOK ==
  ASSUME GraphInv, NEW t \in Tasks, Ready(t)
  PROVE  GraphInv'
<1> DEFINE T == {t}
<1> USE DEF GraphInv, Ready
<1>1. status' \in [Tasks -> Lives] /\ OpenedBy(T, status') /\ T \subseteq Tasks
      /\ UNCHANGED <<criteria, edges, evidence>>
  BY DEF GraphTypeOK, Lives
<1>2. \A u \in T : Satisfied(Incoming(u, edges), status')
  BY DEF Satisfied, Incoming, GraphTypeOK, GraphEdges
<1>3. \A u \in Tasks : /\ status'[u] = "none" => status[u] = "none"
                       /\ status[u] = "done" => status'[u] = "done"
                       /\ status'[u] = "backlog" => status[u] = "backlog"
  BY DEF GraphTypeOK
<1>4. \A d \in WaitingForNothing(edges)' : d \in WaitingForNothing(edges)
  BY DEF WaitingForNothing, Satisfied, Incoming, Gating, GraphTypeOK, GraphEdges
<1> HIDE DEF GraphInv, Ready, T
<1> QED
  BY <1>1, <1>2, <1>3, <1>4, OpeningOK

\* An acceptance opens the tasks that waited for nothing else.
LEMMA AcceptOK ==
  ASSUME GraphInv, NEW t \in Tasks, Accept(t)
  PROVE  GraphInv'
<1> DEFINE done == [status EXCEPT ![t] = "done"]
           unlocked == UnlockDownstream(t, done)
<1> USE DEF GraphInv
<1>0. /\ status[t] = "open"
      /\ status' = [d \in Tasks |-> IF d \in unlocked THEN "open" ELSE done[d]]
      /\ OpenedBy(unlocked, status')
      /\ UNCHANGED <<criteria, edges, evidence>>
  BY DEF Accept
<1>1. done \in [Tasks -> Lives] /\ done[t] = "done" /\ unlocked \subseteq Tasks
      /\ \A u \in Tasks : u # t => done[u] = status[u]
  BY <1>0 DEF GraphTypeOK, Lives, UnlockDownstream
<1>2. \A d \in unlocked : done[d] = "backlog" /\ Satisfied(Incoming(d, edges), done)
  BY DEF UnlockDownstream
<1>3. ASSUME NEW d \in WaitingForNothing(edges)'  PROVE  d \in WaitingForNothing(edges)
  <2>1. /\ d \in criteria /\ d \in Tasks /\ status'[d] = "backlog"
        /\ Gating(d, edges) # {} /\ Satisfied(Incoming(d, edges), status')
    BY <1>0, <1>3 DEF WaitingForNothing, GraphTypeOK, Satisfied, Incoming, Gating
  <2>2. d \notin unlocked /\ d # t /\ status[d] = "backlog" /\ done[d] = "backlog"
    BY <2>1, <1>0, <1>1
  <2>3. ASSUME NEW e \in Gating(d, edges)
        PROVE  /\ done[e.from] = "done"
               /\ RequiredEvidenceKind(e.type) \subseteq evidence[e.from]
    BY <2>1, <2>3, <1>0 DEF Satisfied, Gating, Incoming, GraphTypeOK, GraphEdges
  <2>4. Satisfied(Incoming(d, edges), done)
    BY <2>3 DEF Satisfied, Gating
  <2>5. \A e \in Gating(d, edges) : e.from # t
    BY <2>1, <2>2, <2>4 DEF UnlockDownstream
  <2>6. Satisfied(Incoming(d, edges), status)
    <3> SUFFICES ASSUME NEW e \in Gating(d, edges)
                 PROVE  /\ status[e.from] = "done"
                        /\ RequiredEvidenceKind(e.type) \subseteq evidence[e.from]
      BY DEF Satisfied, Gating
    <3>1. e.from \in Tasks
      BY DEF Gating, Incoming, GraphTypeOK, GraphEdges
    <3> QED
      BY <3>1, <2>3, <2>5, <1>1
  <2> QED
    BY <2>1, <2>2, <2>6 DEF WaitingForNothing
<1> HIDE DEF unlocked, done
<1>4. status' \in [Tasks -> Lives]
  BY <1>0, <1>1 DEF Lives
<1>5. \A d \in unlocked : Satisfied(Incoming(d, edges), status')
  <2> SUFFICES ASSUME NEW d \in unlocked, NEW e \in Incoming(d, edges),
                      IsGatingDependency(e.type)
               PROVE  /\ status'[e.from] = "done"
                      /\ RequiredEvidenceKind(e.type) \subseteq evidence[e.from]
    BY DEF Satisfied
  <2>1. e.from \in Tasks
    BY DEF Incoming, GraphTypeOK, GraphEdges
  <2>2. /\ done[e.from] = "done"
        /\ RequiredEvidenceKind(e.type) \subseteq evidence[e.from]
    BY <1>2 DEF Satisfied
  <2>3. e.from \notin unlocked
    BY <1>2, <2>2
  <2> QED
    BY <1>0, <2>1, <2>2, <2>3
<1>6. \A u \in Tasks : /\ status'[u] = "none" => status[u] = "none"
                       /\ status[u] = "done" => status'[u] = "done"
                       /\ status'[u] = "backlog" => status[u] = "backlog"
  BY <1>0, <1>1, <1>2
<1> QED
  BY <1>0, <1>1, <1>3, <1>4, <1>5, <1>6, OpeningOK

\* A cancelled task keeps its edges, and what waits for it goes on waiting.
LEMMA RetireOK ==
  ASSUME GraphInv, NEW t \in Tasks, Retire(t)
  PROVE  GraphInv'
<1> DEFINE T == {}
<1> USE DEF GraphInv, Retire
<1>1. status' \in [Tasks -> Lives] /\ OpenedBy(T, status')
      /\ UNCHANGED <<criteria, edges, evidence>>
  BY DEF GraphTypeOK, Lives
<1>2. T \subseteq Tasks /\ \A u \in T : Satisfied(Incoming(u, edges), status')
  OBVIOUS
<1>3. \A u \in Tasks : /\ status'[u] = "none" => status[u] = "none"
                       /\ status[u] = "done" => status'[u] = "done"
                       /\ status'[u] = "backlog" => status[u] = "backlog"
  BY DEF GraphTypeOK
<1>4. \A d \in WaitingForNothing(edges)' : d \in WaitingForNothing(edges)
  BY DEF WaitingForNothing, Satisfied, Incoming, Gating, GraphTypeOK, GraphEdges
<1> HIDE DEF GraphInv, Retire, T
<1> QED
  BY <1>1, <1>2, <1>3, <1>4, OpeningOK

\* The task that stores an artifact is not done: nobody's wait ends by it.
LEMMA StoreArtifactOK ==
  ASSUME GraphInv, NEW t \in Tasks, NEW kinds \in SUBSET Evidence, StoreArtifact(t, kinds)
  PROVE  GraphInv'
<1> USE DEF GraphInv, StoreArtifact
<1>1. GraphTypeOK'
  BY DEF GraphTypeOK
<1>2. EdgesJoinTasks'
  BY DEF EdgesJoinTasks
<1>3. Acyclic'
  BY OrderSurvivesLess
<1>4. OpenedWithReason'
  BY DEF OpenedWithReason, GraphTypeOK, GraphEdges
<1>5. NoneForgotten'
  <2> SUFFICES ASSUME NEW d \in WaitingForNothing(edges)'
               PROVE  d \in WaitingForNothing(edges)
    BY DEF NoneForgotten
  <2> QED
    BY DEF WaitingForNothing, Satisfied, Incoming, Gating, GraphTypeOK, GraphEdges
<1> QED
  BY <1>1, <1>2, <1>3, <1>4, <1>5

\* Every step of the task graph.
LEMMA GraphStep ==
  ASSUME GraphInv, [GraphNext]_graphVars  PROVE  GraphInv'
<1>1. CASE UNCHANGED graphVars
  BY <1>1 DEF GraphInv, graphVars, GraphTypeOK, EdgesJoinTasks, Acyclic, OpenedWithReason,
     NoneForgotten, WaitingForNothing, Satisfied, Incoming, Gating
<1>2. ASSUME NEW t \in Tasks, NEW kinds \in {{"artifact"}, {"artifact", "contract"}},
             StoreArtifact(t, kinds)
      PROVE  GraphInv'
  BY <1>2, StoreArtifactOK DEF Evidence
<1>3. CASE GraphNext
  BY <1>2, <1>3, CreateTaskOK, CreateDependencyOK, DeleteDependencyOK, ReadyOK, AcceptOK,
     RetireOK DEF GraphNext
<1> QED
  BY <1>1, <1>3

\* What keeps a task waiting is kept waiting by somebody who can act: the first
\* of those before it that are not done.
LEMMA WaitingEnds == GraphInv => WaitsEnd
<1> SUFFICES ASSUME GraphInv, NEW e \in edges, IsGatingDependency(e.type),
                    status[e.from] # "done"
             PROVE  \E t \in Tasks : /\ e.from \in Reached(t, edges)
                                     /\ status[t] # "done"
                                     /\ \A g \in Gating(t, edges) : status[g.from] = "done"
  BY DEF WaitsEnd
<1> DEFINE N == Cardinality(Tasks)
<1>0. edges \subseteq GraphEdges /\ N \in Nat
  BY GraphAssumption, FS_CardinalityType DEF GraphInv, GraphTypeOK
<1> HIDE DEF N
<1>1. PICK place \in [Tasks -> 1 .. N] : \A x \in edges : place[x.from] < place[x.to]
  BY DEF GraphInv, Acyclic, N
<1> DEFINE Before == {t \in Tasks : e.from \in Reached(t, edges) /\ status[t] # "done"}
           S == {place[t] : t \in Before}
<1>2. e.from \in Before
  BY <1>0, ReachedTasks DEF GraphEdges
<1>3. S \subseteq Nat /\ S # {}
  BY <1>0, <1>1, <1>2
<1>4. PICK i \in S : \A n \in S : i <= n
  <2> HIDE DEF S
  <2> QED
    BY <1>3, FirstPlace
<1>5. PICK t \in Before : i = place[t]
  OBVIOUS
<1>6. ASSUME NEW g \in Gating(t, edges), status[g.from] # "done"  PROVE  FALSE
  <2>1. g \in edges /\ g.to = t /\ g.from \in Tasks /\ t \in Tasks
    BY <1>0 DEF Gating, Incoming, GraphEdges
  <2>2. e.from \in Reached(g.from, edges)
    BY <1>0, <2>1, ReachedFurther
  <2>3. place[g.from] \in S
    BY <1>6, <2>1, <2>2
  <2> QED
    BY <1>0, <1>1, <1>4, <1>5, <2>1, <2>3
<1> QED
  BY <1>5, <1>6

-------------------------------------------------------------------------------
(* TaskGraph: theorems *)

\* The rows of tasks and edges keep their types and edges their order, however
\* the graph is edited (dag-service.ts).
THEOREM GraphInvHolds == GraphSpec => []GraphInv
<1>1. GraphInv /\ [GraphNext]_graphVars => GraphInv'
  BY GraphStep
<1> QED
  BY <1>1, GraphInitOK, PTL DEF GraphSpec

\* However edges are edited (dag-service.ts), the graph has no cycle, no waiting
\* is circular, no gate opens early and none stays shut after the last acceptance.
THEOREM GraphIsSound == GraphSpec => []GraphSound
<1>1. GraphInv => GraphSound
  BY WaitingEnds DEF GraphInv, GraphSound
<1> QED
  BY GraphInvHolds, <1>1, PTL

-------------------------------------------------------------------------------
(* FileLeases: paths *)

Segments == {".", ".."} \cup DOMAIN LowerCase
Names == {".."} \cup {LowerCase[s] : s \in DOMAIN LowerCase}

\* A function on 0 .. N can be defined step by step.
LEMMA WalkExists ==
  ASSUME NEW N \in Nat, NEW F \in [1 .. N -> [Seq(Names) -> Seq(Names)]]
  PROVE  \E f \in [0 .. N -> Seq(Names)] : f[0] = <<>> /\ \A n \in 1 .. N : f[n] = F[n][f[n - 1]]
<1> DEFINE S == Seq(Names)
           a == <<>>
<1>0. a \in S /\ F \in [1 .. N -> [S -> S]]
  OBVIOUS
<1> HIDE DEF S, a
<1> DEFINE Walk(m, f) == f[0] = a /\ \A n \in 1 .. m : f[n] = F[n][f[n - 1]]
           Bad == {m \in 0 .. N : ~ \E f \in [0 .. m -> S] : Walk(m, f)}
<1>1. ASSUME Bad # {}  PROVE  FALSE
  <2>1. PICK m \in Bad : \A n \in Bad : m <= n
    <3>1. Bad \subseteq Nat
      OBVIOUS
    <3> HIDE DEF Bad
    <3> QED
      BY <1>1, <3>1, FirstPlace
  <2>2. CASE m = 0
    <3> DEFINE f == [x \in 0 .. 0 |-> a]
    <3>1. f \in [0 .. 0 -> S] /\ Walk(0, f)
      BY <1>0
    <3> QED
      BY <2>1, <2>2, <3>1
  <2>3. CASE m # 0
    <3>0. Bad \subseteq 0 .. N
      OBVIOUS
    <3>1. m - 1 \in 0 .. N /\ m - 1 \notin Bad /\ m \in 1 .. N
      <4> HIDE DEF Bad
      <4> QED
        BY <2>1, <2>3, <3>0
    <3>2. PICK g \in [0 .. (m - 1) -> S] : Walk(m - 1, g)
      BY <3>1
    <3> DEFINE f == [x \in 0 .. m |-> IF x = m THEN F[m][g[m - 1]] ELSE g[x]]
    <3>3. f \in [0 .. m -> S]
      BY <1>0, <3>1
    <3>4. f[0] = a
      BY <2>3, <3>1, <3>2
    <3>5. ASSUME NEW n \in 1 .. m  PROVE  f[n] = F[n][f[n - 1]]
      <4>1. CASE n = m
        <5>1. m - 1 \in 0 .. m /\ m - 1 # m /\ m \in 0 .. m
          BY <3>1
        <5>2. f[m - 1] = g[m - 1] /\ f[m] = F[m][g[m - 1]]
          BY <5>1
        <5> HIDE DEF f
        <5> QED
          BY <4>1, <5>2
      <4>2. CASE n # m
        <5>1. n \in 1 .. (m - 1) /\ n \in 0 .. m /\ n - 1 \in 0 .. m /\ n - 1 # m
          BY <3>1, <3>5, <4>2
        <5>2. f[n - 1] = g[n - 1] /\ f[n] = g[n]
          BY <5>1, <4>2
        <5> HIDE DEF f
        <5> QED
          BY <3>2, <5>1, <5>2
      <4> QED
        BY <4>1, <4>2
    <3> HIDE DEF f
    <3>6. Walk(m, f)
      BY <3>4, <3>5
    <3> QED
      BY <3>3, <3>6, <2>1
  <2> QED
    BY <2>2, <2>3
<1>2. \E f \in [0 .. N -> S] : f[0] = a /\ \A n \in 1 .. N : f[n] = F[n][f[n - 1]]
  <2>1. N \notin Bad
    BY <1>1
  <2> QED
    BY <2>1
<1> HIDE DEF Bad, Walk
<1> QED
  BY <1>2, Zenon DEF S, a

\* A segment takes a normal path to a normal path, or it is refused.
LEMMA NextPathType ==
  ASSUME NEW p \in Seq(Names), NEW s \in Segments
  PROVE  NextPath(p, s) \in Seq(Names)
<1>0. Rejected \in Seq(Names)
  BY DEF Rejected, Names
<1>1. CASE s = "." \/ p = Rejected
  BY <1>1 DEF NextPath
<1>2. CASE p # Rejected /\ s = ".." /\ p = <<>>
  BY <1>0, <1>2 DEF NextPath
<1>3. CASE s = ".." /\ p \notin {<<>>, Rejected}
  BY <1>3, SubSeqProperties DEF NextPath, Front
<1>4. CASE p # Rejected /\ s \notin {".", ".."}
  BY <1>4, LeaseAssumption DEF NextPath, Segments, Names
<1> QED
  BY <1>1, <1>2, <1>3, <1>4 DEF Segments

\* A segment takes a place to a place.
LEMMA NextPlaceType ==
  ASSUME NEW p \in Seq(Names), NEW s \in Segments
  PROVE  NextPlace(p, s) \in Seq(Names)
<1>1. CASE s = "."
  BY <1>1 DEF NextPlace
<1>2. CASE s = ".."
  BY <1>2, SubSeqProperties DEF NextPlace
<1>3. CASE s \notin {".", ".."}
  <2>1. NextPlace(p, s) = p \o <<LowerCase[s]>>
    BY <1>3 DEF NextPlace
  <2>2. LowerCase[s] \in Names
    BY <1>3 DEF Segments, Names
  <2> QED
    BY <2>1, <2>2
<1> QED
  BY <1>1, <1>2, <1>3 DEF Segments

\* The path after each segment, as normalizeLeasePath goes through them.
LEMMA PathWalk ==
  ASSUME NEW raw \in Seq(Segments), raw # <<>>
  PROVE  \E path \in [0 .. Len(raw) -> Seq(Names)] :
           /\ path[0] = <<>>
           /\ \A n \in 1 .. Len(raw) : path[n] = NextPath(path[n - 1], raw[n])
           /\ NormalizePath(raw) = path[Len(raw)]
<1> DEFINE N == Len(raw)
           F == [n \in 1 .. N |-> [p \in Seq(Names) |-> NextPath(p, raw[n])]]
           G(h) == [n \in 0 .. N |-> IF n = 0 THEN <<>> ELSE NextPath(h[n - 1], raw[n])]
           path[n \in 0 .. Len(raw)] ==
             IF n = 0 THEN <<>> ELSE NextPath(path[n - 1], raw[n])
<1>1. N \in Nat /\ \A n \in 1 .. N : raw[n] \in Segments
  OBVIOUS
<1>2. F \in [1 .. N -> [Seq(Names) -> Seq(Names)]]
  BY <1>1, NextPathType
<1>3. <<>> \in Seq(Names)
  OBVIOUS
<1>4. PICK f \in [0 .. N -> Seq(Names)] :
        f[0] = <<>> /\ \A n \in 1 .. N : f[n] = F[n][f[n - 1]]
  <2> HIDE DEF F, N, G, path
  <2> QED
    BY <1>1, <1>2, WalkExists
<1>5. ASSUME NEW n \in 1 .. N  PROVE  f[n] = NextPath(f[n - 1], raw[n])
  <2>1. f[n - 1] \in Seq(Names)
    BY <1>1, <1>4
  <2>2. F[n][f[n - 1]] = NextPath(f[n - 1], raw[n])
    BY <2>1
  <2> QED
    BY <1>4, <2>2
<1>6. \E h : h = [n \in 0 .. Len(raw) |->
                   IF n = 0 THEN <<>> ELSE NextPath(h[n - 1], raw[n])]
  BY <1>1, <1>4, <1>5
<1>7. path = [n \in 0 .. Len(raw) |->
                IF n = 0 THEN <<>> ELSE NextPath(path[n - 1], raw[n])]
  BY <1>6, Zenon
<1>8. NormalizePath(raw) = path[Len(raw)]
  BY DEF NormalizePath
<1> DEFINE Differ == {n \in 0 .. N : path[n] # f[n]}
<1> HIDE DEF path
<1>9. Differ = {}
  <2> SUFFICES ASSUME Differ # {}  PROVE  FALSE
    OBVIOUS
  <2>0. Differ \subseteq Nat
    BY <1>1
  <2>1. PICK m \in Differ : \A n \in Differ : m <= n
    <3> HIDE DEF Differ
    <3> QED
      BY <2>0, FirstPlace
  <2>2. path[0] = <<>> /\ f[0] = <<>>
    BY <1>1, <1>4, <1>7
  <2>3. m \in 1 .. N /\ m - 1 \in 0 .. N /\ m - 1 \notin Differ
    <3>1. m \in 0 .. N /\ N \in Nat
      BY <1>1, <2>1
    <3>2. m \in 1 .. N /\ m - 1 \in 0 .. N /\ ~(m <= m - 1)
      BY ONLY <2>2, <3>1
    <3> HIDE DEF Differ
    <3> QED
      BY <2>1, <3>2
  <2>4. path[m - 1] = f[m - 1]
    BY <2>3
  <2>5. path[m] = NextPath(path[m - 1], raw[m])
    BY <1>1, <1>7, <2>3
  <2> QED
    BY <1>5, <2>1, <2>3, <2>4, <2>5
<1>10. path[N] = f[N]
  BY <1>1, <1>9
<1> QED
  BY <1>4, <1>5, <1>8, <1>10

\* The place after each segment, as a file system goes through them.
LEMMA PlaceWalk ==
  ASSUME NEW raw \in Seq(Segments)
  PROVE  \E place \in [0 .. Len(raw) -> Seq(Names)] :
           /\ place[0] = <<>>
           /\ \A n \in 1 .. Len(raw) : place[n] = NextPlace(place[n - 1], raw[n])
           /\ Place(raw) = place[Len(raw)]
<1> DEFINE N == Len(raw)
           F == [n \in 1 .. N |-> [p \in Seq(Names) |-> NextPlace(p, raw[n])]]
           G(h) == [n \in 0 .. N |-> IF n = 0 THEN <<>> ELSE NextPlace(h[n - 1], raw[n])]
           place[n \in 0 .. Len(raw)] ==
             IF n = 0 THEN <<>> ELSE NextPlace(place[n - 1], raw[n])
<1>1. N \in Nat /\ \A n \in 1 .. N : raw[n] \in Segments
  OBVIOUS
<1>2. F \in [1 .. N -> [Seq(Names) -> Seq(Names)]]
  BY <1>1, NextPlaceType
<1>3. <<>> \in Seq(Names)
  OBVIOUS
<1>4. PICK f \in [0 .. N -> Seq(Names)] :
        f[0] = <<>> /\ \A n \in 1 .. N : f[n] = F[n][f[n - 1]]
  <2> HIDE DEF F, N, G, place
  <2> QED
    BY <1>1, <1>2, WalkExists
<1>5. ASSUME NEW n \in 1 .. N  PROVE  f[n] = NextPlace(f[n - 1], raw[n])
  <2>1. f[n - 1] \in Seq(Names)
    BY <1>1, <1>4
  <2>2. F[n][f[n - 1]] = NextPlace(f[n - 1], raw[n])
    BY <2>1
  <2> QED
    BY <1>4, <2>2
<1>6. \E h : h = [n \in 0 .. Len(raw) |->
                   IF n = 0 THEN <<>> ELSE NextPlace(h[n - 1], raw[n])]
  BY <1>1, <1>4, <1>5
<1>7. place = [n \in 0 .. Len(raw) |->
                IF n = 0 THEN <<>> ELSE NextPlace(place[n - 1], raw[n])]
  BY <1>6, Zenon
<1>8. Place(raw) = place[Len(raw)]
  BY DEF Place
<1> DEFINE Differ == {n \in 0 .. N : place[n] # f[n]}
<1> HIDE DEF place
<1>9. Differ = {}
  <2> SUFFICES ASSUME Differ # {}  PROVE  FALSE
    OBVIOUS
  <2>0. Differ \subseteq Nat
    BY <1>1
  <2>1. PICK m \in Differ : \A n \in Differ : m <= n
    <3> HIDE DEF Differ
    <3> QED
      BY <2>0, FirstPlace
  <2>2. place[0] = <<>> /\ f[0] = <<>>
    BY <1>1, <1>4, <1>7
  <2>3. m \in 1 .. N /\ m - 1 \in 0 .. N /\ m - 1 \notin Differ
    <3>1. m \in 0 .. N /\ N \in Nat
      BY <1>1, <2>1
    <3>2. m \in 1 .. N /\ m - 1 \in 0 .. N /\ ~(m <= m - 1)
      BY ONLY <2>2, <3>1
    <3> HIDE DEF Differ
    <3> QED
      BY <2>1, <3>2
  <2>4. place[m - 1] = f[m - 1]
    BY <2>3
  <2>5. place[m] = NextPlace(place[m - 1], raw[m])
    BY <1>1, <1>7, <2>3
  <2> QED
    BY <1>5, <2>1, <2>3, <2>4, <2>5
<1>10. place[N] = f[N]
  BY <1>1, <1>9
<1> QED
  BY <1>4, <1>5, <1>8, <1>10

\* A path that is not refused is normalised to the place it names.
LEMMA NormalIsPlace ==
  ASSUME NEW raw \in AllPaths, Normal[raw] # Rejected
  PROVE  Normal[raw] = Place(raw) /\ Place(raw) \in Seq(Names)
<1> DEFINE N == Len(raw)
<1>1. raw \in Seq(Segments) /\ N \in Nat /\ \A n \in 1 .. N : raw[n] \in Segments
  BY LeaseAssumption DEF Segments
<1>2. Normal[raw] = NormalizePath(raw) /\ raw # <<>>
  BY DEF Normal, NormalizePath
<1>3. PICK path \in [0 .. N -> Seq(Names)] :
        /\ path[0] = <<>>
        /\ \A n \in 1 .. N : path[n] = NextPath(path[n - 1], raw[n])
        /\ NormalizePath(raw) = path[N]
  BY <1>1, <1>2, PathWalk
<1>4. PICK place \in [0 .. N -> Seq(Names)] :
        /\ place[0] = <<>>
        /\ \A n \in 1 .. N : place[n] = NextPlace(place[n - 1], raw[n])
        /\ Place(raw) = place[N]
  BY <1>1, PlaceWalk
<1> DEFINE Differ == {n \in 0 .. N : path[n] # Rejected /\ path[n] # place[n]}
<1> HIDE DEF N
<1>5. ASSUME Differ # {}  PROVE  FALSE
  <2>0. Differ \subseteq Nat
    BY <1>1
  <2>1. PICK m \in Differ : \A n \in Differ : m <= n
    <3> HIDE DEF Differ
    <3> QED
      BY <1>5, <2>0, FirstPlace
  <2>2. m # 0
    BY <1>3, <1>4, <2>1
  <2>3. m \in 1 .. N /\ m - 1 \in 0 .. N /\ m - 1 \notin Differ
    <3>1. m \in 0 .. N /\ N \in Nat
      BY <1>1, <2>1
    <3>2. m \in 1 .. N /\ m - 1 \in 0 .. N /\ ~(m <= m - 1)
      BY ONLY <2>2, <3>1
    <3> HIDE DEF Differ
    <3> QED
      BY <2>1, <3>2
  <2> DEFINE p == path[m - 1]  q == place[m - 1]  s == raw[m]
  <2>4. /\ path[m] = NextPath(p, s) /\ place[m] = NextPlace(q, s)
        /\ (p = Rejected \/ (p = q /\ p \in Seq(Names))) /\ s \in Segments
    BY <1>1, <1>3, <1>4, <2>3
  <2>5. path[m] # Rejected /\ path[m] # place[m]
    BY <2>1
  <2> HIDE DEF p, q, s
  <2>6. p # Rejected
    BY <2>4, <2>5 DEF NextPath
  <2>7. CASE s = "."
    BY <2>4, <2>5, <2>6, <2>7 DEF NextPath, NextPlace
  <2>8. CASE s = ".."
    BY <2>4, <2>5, <2>6, <2>8 DEF NextPath, NextPlace, Front
  <2>9. CASE s \notin {".", ".."}
    <3>1. path[m] = Append(p, LowerCase[s]) /\ place[m] = p \o <<LowerCase[s]>>
      BY <2>4, <2>6, <2>9 DEF NextPath, NextPlace
    <3>2. LowerCase[s] \in Names
      BY <2>4, <2>6, <2>9 DEF Names, Segments
    <3> QED
      BY <2>4, <2>5, <2>6, <3>1, <3>2
  <2> QED
    BY <2>7, <2>8, <2>9
<1>6. N \notin Differ
  BY <1>5
<1> QED
  BY <1>1, <1>2, <1>3, <1>4, <1>6

\* Two places over one file are one under the other.
LEMMA PrefixesOfOne ==
  ASSUME NEW A, NEW B, NEW p \in Seq(A), NEW q \in Seq(A), NEW f \in Seq(B),
         IsPrefix(p, f), IsPrefix(q, f)
  PROVE  PathsOverlap(p, q)
<1>1. Len(p) \in Nat /\ Len(q) \in Nat /\ Len(f) \in Nat
  OBVIOUS
<1>2. /\ Len(p) <= Len(f) /\ \A i \in 1 .. Len(p) : p[i] = f[i]
      /\ Len(q) <= Len(f) /\ \A i \in 1 .. Len(q) : q[i] = f[i]
  BY <1>1 DEF IsPrefix
<1>3. CASE Len(p) <= Len(q)
  BY <1>1, <1>2, <1>3 DEF PathsOverlap, IsPrefix
<1>4. CASE Len(q) <= Len(p)
  BY <1>1, <1>2, <1>4 DEF PathsOverlap, IsPrefix
<1> QED
  BY <1>1, <1>3, <1>4
-------------------------------------------------------------------------------
(* FileLeases: the inductive invariant *)

Rows == [owner : Owners \cup {RunOwner[r] : r \in LeaseRuns}, run : LeaseRuns \cup {NoRun},
         path : {Normal[raw] : raw \in AllPaths}, raw : AllPaths, mode : {"read", "write"},
         expires : Nat, status : {"held", "expired", "released"}]

LeaseTypeOK ==
  /\ lease \in [Leases -> Rows \cup {NoLease}]
  /\ clock \in 0 .. MaxTime
  /\ runPhase \in [LeaseRuns -> {"new", "active", "settled"}]
  /\ freed \subseteq LeaseRuns

\* A row has the normal form of the path it was asked for.
PathsFit ==
  \A l \in Leases : lease[l] # NoLease =>
    lease[l].path = Normal[lease[l].raw] /\ lease[l].path # Rejected

SameRun(a, b) == a.run = b.run /\ a.run # NoRun

\* Leases in force conflict only within a run.
LeasesApart ==
  \A l, m \in Leases :
    l # m /\ IsActive(l) /\ IsActive(m) /\ ScopesConflict(lease[l], lease[m])
      => SameRun(lease[l], lease[m])

Secures(row, r, w) ==
  row.status = "held" /\ row.run = r /\ row.mode = "write" /\ row.expires = Forever
    /\ row.path = Normal[w]

\* A running run has a lease without expiry on each of its write paths.
PathsSecured ==
  \A r \in LeaseRuns : runPhase[r] = "active" /\ r \notin freed =>
    \A w \in WritePaths[r] : \E l \in Leases : Secures(lease[l], r, w)

LeaseInv == LeaseTypeOK /\ PathsFit /\ LeasesApart /\ PathsSecured

\* A row stays as it is or is held no longer.
Fades(l, row) ==
  \/ row = lease[l]
  \/ l \in Held /\ \E s \in {"expired", "released"} : row = [lease[l] EXCEPT !.status = s]

-------------------------------------------------------------------------------
(* FileLeases: steps *)

\* Two paths conflict in either order.
LEMMA ConflictIsMutual ==
  ASSUME NEW a, NEW b, ScopesConflict(a, b)  PROVE  ScopesConflict(b, a)
  BY DEF ScopesConflict, PathsOverlap

\* A lease in force is a row with a path.
LEMMA HeldRows ==
  ASSUME LeaseTypeOK, NEW l \in Leases, lease[l] # NoLease
  PROVE  lease[l] \in Rows
  BY DEF LeaseTypeOK

\* A row that fades keeps its owner, run and path.
LEMMA FadedRow ==
  ASSUME LeaseTypeOK, NEW l \in Leases, NEW row, Fades(l, row)
  PROVE  /\ row \in Rows \cup {NoLease}
         /\ row # NoLease => /\ lease[l] # NoLease /\ row.path = lease[l].path
                             /\ row.raw = lease[l].raw
         /\ row.status = "held" => row = lease[l]
BY HeldRows DEF LeaseTypeOK, Held, NoLease, Rows, Fades

\* Rows R are added, which conflict with nothing in force but of their own run.
LEMMA RowsAdded ==
  ASSUME LeaseInv, NEW R, R \subseteq Leases, DOMAIN lease' = Leases,
         lease' = [l \in Leases |-> lease'[l]],
         clock' \in 0 .. MaxTime, clock' >= clock,
         runPhase' \in [LeaseRuns -> {"new", "active", "settled"}], freed' \subseteq LeaseRuns,
         \A l \in Leases \ R : Fades(l, lease'[l]),
         \A l \in R : /\ lease'[l] \in Rows /\ lease'[l].status = "held"
                      /\ lease'[l].path = Normal[lease'[l].raw]
                      /\ lease'[l].path # Rejected,
         \A l \in R, m \in Leases \ R :
           IsActive(m) /\ ScopesConflict(lease'[l], lease[m]) => SameRun(lease'[l], lease[m]),
         \A l, m \in R : l # m => SameRun(lease'[l], lease'[m]),
         \A r \in LeaseRuns : runPhase'[r] = "active" /\ r \notin freed' =>
           \/ /\ runPhase[r] = "active" /\ r \notin freed
              /\ \A l \in Leases, w \in WritePaths[r] :
                   Secures(lease[l], r, w) => lease'[l] = lease[l]
           \/ \A w \in WritePaths[r] : \E l \in R : Secures(lease'[l], r, w)
  PROVE  LeaseInv'
<1>0. LeaseTypeOK
  BY DEF LeaseInv
<1>1. ASSUME NEW l \in Leases \ R
      PROVE  /\ lease'[l] \in Rows \cup {NoLease}
             /\ lease'[l] # NoLease => /\ lease[l] # NoLease /\ lease'[l].path = lease[l].path
                                       /\ lease'[l].raw = lease[l].raw
             /\ lease'[l].status = "held" => lease'[l] = lease[l]
  BY <1>0, FadedRow
<1>2. LeaseTypeOK'
  BY <1>1 DEF LeaseTypeOK
<1>3. PathsFit'
  BY <1>1 DEF PathsFit, LeaseInv
<1>4. ASSUME NEW l \in Leases \ R, IsActive(l)'
      PROVE  IsActive(l) /\ lease'[l] = lease[l]
  <2>1. lease'[l].status = "held" /\ ~(lease'[l].expires <= clock')
    BY <1>4 DEF IsActive, Held, PastExpiry
  <2>2. lease'[l] = lease[l] /\ l \in Held
    BY <1>1, <2>1 DEF Held
  <2>3. lease[l] \in Rows
    BY <2>2, <1>0, HeldRows DEF Held, NoLease
  <2>4. lease[l].expires \in Nat /\ clock \in Nat /\ clock' \in Nat
    BY <2>3, <1>0, LeaseAssumption DEF Rows, LeaseTypeOK
  <2> QED
    BY <2>1, <2>2, <2>4 DEF IsActive, PastExpiry
<1>5. LeasesApart'
  <2> SUFFICES ASSUME NEW l \in Leases, NEW m \in Leases, l # m, IsActive(l)', IsActive(m)',
                      ScopesConflict(lease'[l], lease'[m])
               PROVE  SameRun(lease'[l], lease'[m])
    BY DEF LeasesApart
  <2>1. CASE l \notin R /\ m \notin R
    BY <2>1, <1>4 DEF LeasesApart, LeaseInv
  <2>2. CASE l \in R /\ m \notin R
    BY <2>2, <1>4
  <2>3. CASE l \notin R /\ m \in R
    BY <2>3, <1>4, ConflictIsMutual DEF SameRun
  <2> QED
    BY <2>1, <2>2, <2>3
<1>6. PathsSecured'
  <2> SUFFICES ASSUME NEW r \in LeaseRuns, runPhase'[r] = "active", r \notin freed',
                      NEW w \in WritePaths[r]
               PROVE  \E l \in Leases : Secures(lease'[l], r, w)
    BY DEF PathsSecured, Secures
  <2>1. CASE \A v \in WritePaths[r] : \E l \in R : Secures(lease'[l], r, v)
    BY <2>1
  <2>2. CASE /\ runPhase[r] = "active" /\ r \notin freed
             /\ \A l \in Leases, v \in WritePaths[r] :
                  Secures(lease[l], r, v) => lease'[l] = lease[l]
    <3>1. PICK l \in Leases : Secures(lease[l], r, w)
      BY <2>2 DEF LeaseInv, PathsSecured
    <3> QED
      BY <2>2, <3>1
  <2> QED
    BY <2>1, <2>2
<1> QED
  BY <1>2, <1>3, <1>5, <1>6 DEF LeaseInv

\* No row is added.
LEMMA RowsFade ==
  ASSUME LeaseInv, lease' = [l \in Leases |-> lease'[l]],
         clock' \in 0 .. MaxTime, clock' >= clock,
         runPhase' \in [LeaseRuns -> {"new", "active", "settled"}], freed' \subseteq LeaseRuns,
         \A l \in Leases : Fades(l, lease'[l]),
         \A r \in LeaseRuns : runPhase'[r] = "active" /\ r \notin freed' =>
           /\ runPhase[r] = "active" /\ r \notin freed
           /\ \A l \in Leases, w \in WritePaths[r] :
                Secures(lease[l], r, w) => lease'[l] = lease[l]
  PROVE  LeaseInv'
<1> DEFINE R == {}
<1>1. R \subseteq Leases /\ R = {} /\ DOMAIN lease' = Leases
  OBVIOUS
<1> HIDE DEF R
<1> QED
  BY <1>1, RowsAdded

\* Expired only ends what is past its expiry, and that is no run's.
LEMMA ExpiredRows ==
  ASSUME LeaseInv
  PROVE  /\ Expired = [l \in Leases |-> Expired[l]]
         /\ \A l \in Leases : Fades(l, Expired[l])
         /\ \A l \in Leases : \A r, w : Secures(lease[l], r, w) => Expired[l] = lease[l]
BY LeaseAssumption DEF Expired, Fades, Secures, PastExpiry, Forever, LeaseInv, LeaseTypeOK

\* No leases.
LEMMA LeaseInitOK == LeaseInit => LeaseInv
<1> SUFFICES ASSUME LeaseInit  PROVE  LeaseInv
  OBVIOUS
<1>1. LeaseTypeOK
  BY LeaseAssumption DEF LeaseInit, LeaseTypeOK
<1>2. PathsFit /\ LeasesApart /\ PathsSecured
  BY DEF LeaseInit, PathsFit, LeasesApart, PathsSecured, IsActive, Held, NoLease
<1> QED
  BY <1>1, <1>2 DEF LeaseInv

\* acquireLease refuses what conflicts with a lease in force.
LEMMA AcquireLeaseOK ==
  ASSUME LeaseInv, NEW o \in Owners, NEW raw \in RawPaths, NEW mode \in {"read", "write"},
         NEW expires \in {2, Forever}, AcquireLease(o, raw, mode, expires)
  PROVE  LeaseInv'
<1> DEFINE row == NewLease(o, raw, mode, expires)
<1>0. /\ clock' = clock /\ runPhase' = runPhase /\ freed' = freed
      /\ LeaseTypeOK /\ clock \in 0 .. MaxTime /\ MaxTime \in Nat
      /\ runPhase \in [LeaseRuns -> {"new", "active", "settled"}] /\ freed \subseteq LeaseRuns
  BY LeaseAssumption DEF AcquireLease, LeaseInv, LeaseTypeOK
<1>1. /\ row \in Rows /\ row.status = "held" /\ row.path = Normal[row.raw]
      /\ row.path # Rejected
  BY LeaseAssumption DEF AllPaths, Forever, AcquireLease, NewLease, Rows
<1>2. \/ lease' = Expired
      \/ /\ \A l \in Leases : IsActive(l) => ~ScopesConflict(row, lease[l])
         /\ Unused # {} /\ lease' = [Expired EXCEPT ![NextRow] = row]
  BY DEF AcquireLease
<1>3. CASE lease' = Expired
  BY <1>3, ExpiredRows, <1>0, RowsFade
<1> HIDE DEF row
<1>4. CASE /\ \A l \in Leases : IsActive(l) => ~ScopesConflict(row, lease[l])
           /\ Unused # {} /\ lease' = [Expired EXCEPT ![NextRow] = row]
  <2> DEFINE R == {NextRow}
  <2>1. NextRow \in Leases /\ lease[NextRow] = NoLease
    BY <1>4 DEF NextRow, Unused
  <2>2. /\ lease' = [l \in Leases |-> lease'[l]] /\ DOMAIN lease' = Leases
        /\ lease'[NextRow] = row
        /\ \A l \in Leases \ {NextRow} : lease'[l] = Expired[l]
    BY <1>4, <2>1 DEF Expired
  <2>3. ASSUME NEW l \in Leases, NEW r, NEW w, Secures(lease[l], r, w)
        PROVE  lease'[l] = lease[l]
    BY <2>1, <2>2, <2>3, ExpiredRows DEF Secures, NoLease
  <2>4. R \subseteq Leases /\ \A l \in R : l = NextRow
    BY <2>1
  <2>5. \A l \in Leases \ R : Fades(l, lease'[l])
    BY <2>2, ExpiredRows
  <2>6. \A l \in R, m \in Leases \ R :
          IsActive(m) /\ ScopesConflict(lease'[l], lease[m]) => SameRun(lease'[l], lease[m])
    BY <1>4, <2>2
  <2> HIDE DEF R
  <2>7. \A l \in R : /\ lease'[l] \in Rows /\ lease'[l].status = "held"
                     /\ lease'[l].path = Normal[lease'[l].raw]
                     /\ lease'[l].path # Rejected
    BY <1>1, <2>2, <2>4
  <2>8. \A l, m \in R : l # m => SameRun(lease'[l], lease'[m])
    BY <2>4
  <2> QED
    BY <1>0, <2>2, <2>3, <2>4, <2>5, <2>6, <2>7, <2>8, RowsAdded
<1> QED
  BY <1>2, <1>3, <1>4

\* releaseLease ends a row in force, and the run it was of is no longer promised its files.
LEMMA ReleaseLeaseOK ==
  ASSUME LeaseInv, NEW l \in Leases, ReleaseLease(l)
  PROVE  LeaseInv'
<1>0. /\ clock' = clock /\ runPhase' = runPhase
      /\ LeaseTypeOK /\ clock \in 0 .. MaxTime /\ MaxTime \in Nat
      /\ runPhase \in [LeaseRuns -> {"new", "active", "settled"}] /\ freed \subseteq LeaseRuns
  BY LeaseAssumption DEF ReleaseLease, LeaseInv, LeaseTypeOK
<1>1. lease' = [lease EXCEPT ![l].status = "released"] /\ l \in Held
      /\ lease \in [Leases -> Rows \cup {NoLease}]
  BY <1>0 DEF ReleaseLease, LeaseTypeOK
<1>2. lease[l] \in Rows
  BY <1>0, <1>1, HeldRows DEF Held, NoLease
<1>3. \A k \in Leases : Fades(k, lease'[k])
  BY <1>1 DEF Fades
<1>4. freed' \subseteq LeaseRuns /\ freed \subseteq freed'
      /\ (lease[l].run # NoRun => lease[l].run \in freed')
  BY <1>0, <1>2 DEF ReleaseLease, Rows
<1>5. ASSUME NEW r \in LeaseRuns, r \notin freed', NEW k \in Leases, NEW w,
             Secures(lease[k], r, w)
      PROVE  lease'[k] = lease[k]
  <2>1. k # l
    BY <1>4, <1>5, LeaseAssumption DEF Secures
  <2> QED
    BY <1>1, <2>1
<1>6. lease' = [k \in Leases |-> lease'[k]]
  BY <1>1
<1> QED
  BY <1>0, <1>3, <1>4, <1>5, <1>6, RowsFade

\* Listing leases marks the expired ones.
LEMMA ListLeasesOK ==
  ASSUME LeaseInv, ListLeases  PROVE  LeaseInv'
BY LeaseAssumption, ExpiredRows, RowsFade DEF ListLeases, LeaseInv, LeaseTypeOK

\* The clock changes no row.
LEMMA LeaseTickOK ==
  ASSUME LeaseInv, LeaseTick  PROVE  LeaseInv'
BY LeaseAssumption, RowsFade DEF LeaseTick, LeaseInv, LeaseTypeOK, Fades

\* The leases of a run end with it.
LEMMA ReleaseRunLeasesOK ==
  ASSUME LeaseInv, NEW r \in LeaseRuns, ReleaseRunLeases(r)
  PROVE  LeaseInv'
<1>0. /\ clock' = clock /\ freed' = freed /\ clock \in 0 .. MaxTime /\ MaxTime \in Nat
      /\ runPhase \in [LeaseRuns -> {"new", "active", "settled"}] /\ freed \subseteq LeaseRuns
      /\ runPhase' = [runPhase EXCEPT ![r] = "settled"]
      /\ lease' = [l \in Leases |-> IF l \in Held /\ lease[l].run = r
                                    THEN [lease[l] EXCEPT !.status = "released"]
                                    ELSE lease[l]]
  BY LeaseAssumption DEF ReleaseRunLeases, LeaseInv, LeaseTypeOK
<1>1. lease' = [l \in Leases |-> lease'[l]]
  BY <1>0
<1>2. \A l \in Leases : Fades(l, lease'[l])
  BY <1>0 DEF Fades
<1>3. runPhase' \in [LeaseRuns -> {"new", "active", "settled"}]
  BY <1>0
<1>4. ASSUME NEW q \in LeaseRuns, runPhase'[q] = "active"
      PROVE  /\ runPhase[q] = "active"
             /\ \A l \in Leases, w \in WritePaths[q] :
                  Secures(lease[l], q, w) => lease'[l] = lease[l]
  BY <1>0, <1>4 DEF Secures
<1> QED
  BY <1>0, <1>1, <1>2, <1>3, <1>4, RowsFade

\* There are rows for the paths of a run, one for each.
LEMMA NextRowsExist ==
  ASSUME NEW K, IsFiniteSet(K), Cardinality(K) <= Cardinality(Unused)
  PROVE  /\ NextRows(K) \in [K -> Unused]
         /\ \A j, k \in K : NextRows(K)[j] = NextRows(K)[k] => j = k
<1> DEFINE n == Cardinality(K)  m == Cardinality(Unused)
<1>1. IsFiniteSet(Unused)
  BY LeaseAssumption, FS_Subset DEF Unused
<1>2. n \in Nat /\ m \in Nat /\ n <= m
  BY <1>1, FS_CardinalityType
<1>3. PICK g : g \in Bijection(1 .. m, Unused)
  BY <1>1, FS_CardinalityType DEF ExistsBijection
<1>4. PICK h : h \in Bijection(1 .. n, K)
  BY FS_CardinalityType DEF ExistsBijection
<1> HIDE DEF n, m
<1>5. /\ g \in [1 .. m -> Unused] /\ \A i, j \in 1 .. m : g[i] = g[j] => i = j
      /\ \A k \in K : \E i \in 1 .. n : h[i] = k
  BY <1>3, <1>4 DEF Bijection, Injection, Surjection, IsInjective
<1> DEFINE idx(k) == CHOOSE i \in 1 .. n : h[i] = k
           rows == [k \in K |-> g[idx(k)]]
<1>6. \A k \in K : idx(k) \in 1 .. m /\ h[idx(k)] = k
  BY <1>2, <1>5
<1> HIDE DEF idx
<1>7. rows \in [K -> Unused] /\ \A j, k \in K : rows[j] = rows[k] => j = k
  BY <1>5, <1>6
<1> HIDE DEF rows
<1> QED
  BY <1>7 DEF NextRows

\* A run is started only with a lease on each of its write paths.
LEMMA ReserveLeasesOK ==
  ASSUME LeaseInv, NEW r \in LeaseRuns, ReserveLeases(r)
  PROVE  LeaseInv'
<1> DEFINE keys == {Normal[w] : w \in WritePaths[r]}
           rows == NextRows(keys)
           R == {rows[k] : k \in keys}
           raw(k) == CHOOSE w \in WritePaths[r] : Normal[w] = k
           row(k) == [NewLease(RunOwner[r], CHOOSE w \in WritePaths[r] : TRUE,
                                 "write", Forever)
                        EXCEPT !.path = k, !.raw = raw(k)]
<1>0. /\ clock' = clock /\ freed' = freed /\ clock \in 0 .. MaxTime /\ MaxTime \in Nat
      /\ runPhase \in [LeaseRuns -> {"new", "active", "settled"}] /\ freed \subseteq LeaseRuns
      /\ runPhase' = [runPhase EXCEPT ![r] = "active"]
      /\ WritePaths[r] \subseteq AllPaths /\ Forever \in Nat
      /\ HolderRun[RunOwner[r]] = r /\ r # NoRun
  BY LeaseAssumption DEF ReserveLeases, LeaseInv, LeaseTypeOK, AllPaths, Forever
<1>1. /\ Rejected \notin keys
      /\ \A k \in keys, l \in Leases :
           IsActive(l) /\ lease[l].run # r
             => ~ScopesConflict([path |-> k, mode |-> "write"], lease[l])
      /\ Cardinality(keys) <= Cardinality(Unused)
      /\ lease' = Assigned(r, keys, rows)
  BY DEF ReserveLeases
<1>2. IsFiniteSet(keys)
  <2> DEFINE f == [w \in WritePaths[r] |-> Normal[w]]
  <2>1. f \in Surjection(WritePaths[r], keys)
    BY DEF Surjection
  <2> QED
    BY <2>1, LeaseAssumption, FS_Surjection
<1>3. ASSUME NEW k \in keys
      PROVE  /\ row(k) \in Rows /\ row(k).status = "held" /\ row(k).run = r
             /\ row(k).mode = "write" /\ row(k).expires = Forever
             /\ row(k).path = k /\ row(k).path = Normal[row(k).raw]
  <2>1. raw(k) \in WritePaths[r] /\ Normal[raw(k)] = k
    BY <1>3
  <2> HIDE DEF raw
  <2> QED
    BY <1>0, <2>1 DEF NewLease, Rows
<1>4. lease' = [l \in Leases |-> IF \E k \in keys : rows[k] = l
                                 THEN row(CHOOSE k \in keys : rows[k] = l)
                                 ELSE Expired[l]]
  BY <1>1 DEF Assigned
<1> HIDE DEF keys, row, rows
<1>5. /\ rows \in [keys -> Unused]
      /\ \A j, k \in keys : rows[j] = rows[k] => j = k
  BY <1>1, <1>2, NextRowsExist DEF rows
<1>6. R \subseteq Leases /\ \A l \in R : lease[l] = NoLease
  BY <1>5 DEF Unused
<1>7. \A k \in keys : rows[k] \in Leases /\ rows[k] \in R /\ lease'[rows[k]] = row(k)
  BY <1>4, <1>5, <1>6
<1>8. /\ lease' = [l \in Leases |-> lease'[l]] /\ DOMAIN lease' = Leases
      /\ \A l \in Leases \ R : lease'[l] = Expired[l]
  BY <1>4
<1>9. \A l \in R : \E k \in keys : l = rows[k]
  OBVIOUS
<1> HIDE DEF R
<1>10. \A l \in Leases \ R : Fades(l, lease'[l])
  BY <1>8, ExpiredRows
<1>11. \A l \in R : /\ lease'[l] \in Rows /\ lease'[l].status = "held"
                    /\ lease'[l].path = Normal[lease'[l].raw]
                    /\ lease'[l].path # Rejected /\ lease'[l].run = r
  BY <1>1, <1>3, <1>7, <1>9
<1>12. ASSUME NEW l \in R, NEW m \in Leases \ R, IsActive(m),
              ScopesConflict(lease'[l], lease[m])
       PROVE  SameRun(lease'[l], lease[m])
  <2>1. PICK k \in keys : l = rows[k]
    BY <1>9
  <2>2. lease'[l].path = k /\ lease'[l].mode = "write" /\ lease'[l].run = r
    BY <1>3, <1>7, <2>1
  <2>3. ScopesConflict([path |-> k, mode |-> "write"], lease[m])
    BY <1>12, <2>2 DEF ScopesConflict
  <2>4. lease[m].run = r
    BY <1>1, <1>12, <2>3
  <2> QED
    BY <1>0, <2>2, <2>4 DEF SameRun
<1>13. \A l, m \in R : l # m => SameRun(lease'[l], lease'[m])
  BY <1>0, <1>11 DEF SameRun
<1>14. \A w \in WritePaths[r] : \E l \in R : Secures(lease'[l], r, w)
  <2> TAKE w \in WritePaths[r]
  <2>1. Normal[w] \in keys
    BY DEF keys
  <2> QED
    BY <2>1, <1>3, <1>7 DEF Secures
<1>15. ASSUME NEW q \in LeaseRuns, runPhase'[q] = "active", q # r
       PROVE  /\ runPhase[q] = "active"
              /\ \A l \in Leases, w \in WritePaths[q] :
                   Secures(lease[l], q, w) => lease'[l] = lease[l]
  BY <1>0, <1>15, <1>6, <1>8, ExpiredRows DEF Secures, NoLease
<1>16. runPhase' \in [LeaseRuns -> {"new", "active", "settled"}]
  BY <1>0
<1> QED
  BY <1>0, <1>6, <1>8, <1>10, <1>11, <1>12, <1>13, <1>14, <1>15, <1>16, RowsAdded

\* Every step of the leases.
LEMMA LeaseStep ==
  ASSUME LeaseInv, [LeaseNext]_leaseVars  PROVE  LeaseInv'
<1>1. CASE UNCHANGED leaseVars
  BY <1>1 DEF leaseVars, LeaseInv, LeaseTypeOK, PathsFit, LeasesApart, PathsSecured, IsActive,
     Held, PastExpiry
<1>2. CASE LeaseNext
  BY <1>2, AcquireLeaseOK, ReleaseLeaseOK, ListLeasesOK, LeaseTickOK, ReleaseRunLeasesOK,
     ReserveLeasesOK DEF LeaseNext
<1> QED
  BY <1>1, <1>2

-------------------------------------------------------------------------------
(* FileLeases: theorems *)

\* The files of a row are those under the place its path names.
LEMMA FilesOfRow ==
  ASSUME NEW raw \in AllPaths, Normal[raw] # Rejected
  PROVE  FilesUnder[raw] = {f \in WorkFiles : IsPrefix(Normal[raw], f)}
  BY NormalIsPlace DEF FilesUnder

\* Leases without conflict share no file.
LEMMA ApartInFiles == LeaseInv => NoSharedFile
<1> SUFFICES ASSUME LeaseInv, NEW l \in Leases, NEW m \in Leases, l # m,
                    IsActive(l), IsActive(m), "write" \in {lease[l].mode, lease[m].mode},
                    NEW f, f \in FilesUnder[lease[l].raw], f \in FilesUnder[lease[m].raw]
             PROVE  lease[l].run = lease[m].run /\ lease[l].run # NoRun
  BY DEF NoSharedFile
<1>1. ASSUME NEW k \in Leases, IsActive(k)
      PROVE  /\ lease[k].raw \in AllPaths /\ lease[k].path = Normal[lease[k].raw]
             /\ lease[k].path # Rejected /\ lease[k].path \in Seq(Names)
  BY <1>1, HeldRows, NormalIsPlace DEF LeaseInv, IsActive, Held, NoLease, PathsFit, Rows
<1>2. /\ f \in WorkFiles /\ IsPrefix(lease[l].path, f) /\ IsPrefix(lease[m].path, f)
  BY <1>1, FilesOfRow
<1>3. f \in Seq(STRING)
  BY <1>2, LeaseAssumption
<1>4. PathsOverlap(lease[l].path, lease[m].path)
  BY <1>1, <1>2, <1>3, PrefixesOfOne
<1> QED
  BY <1>4 DEF LeaseInv, LeasesApart, ScopesConflict, SameRun

\* A run with its leases is alone in its files.
LEMMA SecuredFiles == LeaseInv => WritersKeepFiles
<1> SUFFICES ASSUME LeaseInv, NEW r \in LeaseRuns, runPhase[r] = "active", r \notin freed,
                    NEW w \in WritePaths[r], NEW f \in WorkFiles, f \in FilesUnder[w]
             PROVE  \E l \in Leases : /\ IsActive(l) /\ lease[l].run = r
                                      /\ lease[l].mode = "write"
                                      /\ f \in FilesUnder[lease[l].raw]
  BY DEF WritersKeepFiles
<1>1. PICK l \in Leases : Secures(lease[l], r, w)
  BY DEF LeaseInv, PathsSecured
<1>2. IsActive(l)
  BY <1>1, LeaseAssumption
  DEF Secures, IsActive, Held, PastExpiry, Forever, LeaseInv, LeaseTypeOK
<1>3. lease[l] # NoLease /\ lease[l] \in Rows
  BY <1>1, HeldRows DEF LeaseInv, Secures, NoLease
<1>4. /\ lease[l].raw \in AllPaths /\ lease[l].path = Normal[lease[l].raw]
      /\ lease[l].path # Rejected /\ lease[l].path = Normal[w] /\ w \in AllPaths
  BY <1>1, <1>3 DEF LeaseInv, PathsFit, Rows, Secures, AllPaths
<1>5. FilesUnder[lease[l].raw] = FilesUnder[w]
  BY <1>4, FilesOfRow
<1> QED
  BY <1>1, <1>2, <1>5 DEF Secures

\* Leases in force do not conflict and those of a running run stay, whatever
\* expires or is released (lease-service.ts).
THEOREM LeaseInvHolds == LeaseSpec => []LeaseInv
<1>1. LeaseInv /\ [LeaseNext]_leaseVars => LeaseInv'
  BY LeaseStep
<1> QED
  BY <1>1, LeaseInitOK, PTL DEF LeaseSpec

\* Whatever the paths are called and whenever leases are taken, expire and are
\* released (lease-service.ts), leases in force share no file outside a run, and a
\* running run keeps its files.
THEOREM LeasesProtect == LeaseSpec => []LeasesProtectFiles
<1>1. LeaseInv => LeasesProtectFiles
  BY ApartInFiles, SecuredFiles DEF LeasesProtectFiles
<1> QED
  BY LeaseInvHolds, <1>1, PTL

-------------------------------------------------------------------------------
(* DesktopWorker: types *)

DeskAttempts ==
  [kind : {"worker", "provision"}, managed : BOOLEAN, computer : Computers \cup {"none"},
   up : BOOLEAN, asked : BOOLEAN, sent : SUBSET {"ready", "stopped", "reply"},
   code : {"none", "zero", "other"}, left : BOOLEAN, current : BOOLEAN,
   restart : {"off", "armed", "queued"}, stopReq : BOOLEAN, abandoned : BOOLEAN,
   ready : BOOLEAN, stopped : BOOLEAN, reply : BOOLEAN, error : BOOLEAN,
   exited : BOOLEAN, closed : BOOLEAN, ended : BOOLEAN]

DeskStates == {"stopped", "starting", "running", "unhealthy", "stopping", "preparing", "failed"}
Polls == {NoPoll} \cup [on : Nat \ {0}, current : BOOLEAN]
Desks ==
  [state : DeskStates, failure : BOOLEAN, stopRequested : BOOLEAN, restarts : Nat,
   timer : Nat, poll : Polls, lost : SUBSET Computers]
DeskOps == [name : Stopping \cup {"idle", "claiming", "prepare", "completing"}, on : Nat]
DeskSeen ==
  [wanted : BOOLEAN, proved : SUBSET (Computers \cup {"none"}), claims : [Computers -> Nat],
   crashes : Nat]

DesktopTypeOK ==
  /\ launch \in Seq(DeskAttempts)
  /\ child \in {0} \cup DOMAIN launch
  /\ desk \in Desks
  /\ deskOp \in DeskOps
  /\ enrolled \in Computers \cup {"none"}
  /\ profile \in [Computers -> {"none", "claimed", "incomplete", "completing", "ready"}]
  /\ seen \in DeskSeen

-------------------------------------------------------------------------------
(* DesktopWorker: the inductive invariant *)

\* The handle is held from the spawn to the end of its attempt.
ChildNotEnded == \A l \in DOMAIN launch : ~launch[l].ended <=> l = child

\* What an attempt has been through agrees with what the rest remembers: an
\* ended one is silent, only workers leave processes behind and restart, a
\* proof of provisioning is kept, a launch that no stop has gone past is wanted.
AttemptFits(a, proved, wanted, failure) ==
  /\ a.ended => ~a.up /\ a.sent = {}
  /\ a.left => a.kind = "worker" /\ a.code = "other"
  /\ a.restart # "off" => a.kind = "worker"
  /\ a.kind = "provision" /\ a.code = "zero" => a.computer \in proved
  /\ a.current /\ a.kind = "worker" => wanted
  /\ a.left /\ a.ended /\ (a.managed \/ a.stopReq) => failure

AttemptsFit ==
  \A l \in DOMAIN launch : AttemptFits(launch[l], seen.proved, seen.wanted, desk.failure)

\* closureFailure is final: nothing is launched and the state stays.
FailureKnown == desk.failure => child = 0 /\ desk.state = "failed"

\* A worker asked to stop is one the controller has asked for; a status request
\* is about a worker.
StopKnown == child # 0 => (launch[child].stopReq => desk.stopRequested)
PollKnown ==
  desk.poll # NoPoll =>
    desk.poll.on \in DOMAIN launch /\ launch[desk.poll.on].kind = "worker"

\* An operation owns the controller until it resolves: no other process comes
\* while a stop or a preparation waits for its own.
OperationFits ==
  /\ deskOp.name \in Stopping =>
       /\ deskOp.on \in DOMAIN launch /\ child \in {0, deskOp.on}
       /\ \A l \in DOMAIN launch : ~launch[l].current
  /\ deskOp.name \in {"claiming", "prepare", "completing"} =>
       enrolled \in Computers /\ ~desk.failure
  /\ deskOp.name \in {"claiming", "completing"} => child = 0
  /\ deskOp.name = "prepare" =>
       /\ deskOp.on \in DOMAIN launch /\ child \in {0, deskOp.on}
       /\ launch[deskOp.on].kind = "provision" /\ launch[deskOp.on].computer = enrolled
  /\ deskOp.name = "completing" => profile[enrolled] = "completing"

ClaimsCounted ==
  \A c \in Computers :
    /\ seen.claims[c] <= 1
    /\ profile[c] = "none" => seen.claims[c] = 0
    /\ profile[c] \in {"completing", "ready"} => c \in seen.proved

\* The worker alive is the user's, for the selected computer and of its kind.
WorkersFit ==
  \A l \in DOMAIN launch : launch[l].up /\ launch[l].kind = "worker" =>
    /\ seen.wanted
    /\ launch[l].computer = enrolled
    /\ profile[enrolled] = IF launch[l].managed THEN "ready" ELSE "none"

LiveWorker(a) ==
  /\ a.kind = "worker" /\ ~a.stopReq /\ ~a.stopped /\ ~a.error /\ ~a.ended
  /\ a.managed => ~a.exited /\ a.ready

RunningKnown == desk.state = "running" => child # 0 /\ LiveWorker(launch[child])

DesktopInv ==
  /\ DesktopTypeOK
  /\ ChildNotEnded
  /\ AttemptsFit
  /\ FailureKnown
  /\ StopKnown /\ PollKnown
  /\ OperationFits
  /\ ClaimsCounted
  /\ WorkersFit
  /\ RunningKnown

LEMMA DesktopInvHolds ==
  ASSUME DesktopInv
  PROVE  DesktopHolds
<1> USE DEF DesktopInv
<1>1. DOMAIN launch \subseteq Nat \ {0}
  BY LenProperties DEF DesktopTypeOK
<1>2. OneChild
  BY DEF OneChild, Up, ChildNotEnded, AttemptsFit, AttemptFits
<1>3. StopMeansStopped
  BY DEF StopMeansStopped, Workers, Up, WorkersFit
<1>4. FailureStays
  <2> SUFFICES ASSUME NEW l \in DOMAIN launch, launch[l].left, launch[l].ended,
                      launch[l].managed \/ launch[l].stopReq
               PROVE  desk.state = "failed" /\ Up = {}
    BY DEF FailureStays
  <2>1. desk.failure
    BY DEF AttemptsFit, AttemptFits
  <2>2. child = 0 /\ desk.state = "failed"
    BY <2>1 DEF FailureKnown
  <2>3. \A k \in DOMAIN launch : ~launch[k].up
    BY <1>1, <2>2 DEF ChildNotEnded, AttemptsFit, AttemptFits
  <2> QED
    BY <2>2, <2>3 DEF Up
<1>5. RunningIsLive
  BY DEF RunningIsLive, RunningKnown, LiveWorker
<1>6. PreparedOnce
  BY DEF PreparedOnce, ClaimsCounted, Workers, Up, WorkersFit
<1> QED
  BY <1>2, <1>3, <1>4, <1>5, <1>6 DEF DesktopHolds

LEMMA DesktopInvInit ==
  ASSUME DesktopInit
  PROVE  DesktopInv
<1> USE DEF DesktopInit, FreshDesk
<1>1. DOMAIN launch = {}
  OBVIOUS
<1>2. DesktopTypeOK
  <2>1. launch \in Seq(DeskAttempts)
    BY EmptySeq
  <2>2. desk \in Desks
    BY DEF Desks, DeskStates, Polls
  <2>3. deskOp \in DeskOps
    BY DEF DeskOps, NoOp
  <2>4. seen \in DeskSeen
    BY DEF DeskSeen
  <2> QED
    BY <2>1, <2>2, <2>3, <2>4 DEF DesktopTypeOK
<1>3. OperationFits
  BY DEF OperationFits, NoOp, Stopping
<1>4. ClaimsCounted
  BY DEF ClaimsCounted
<1>5. RunningKnown /\ FailureKnown /\ StopKnown /\ PollKnown
  BY DEF RunningKnown, FailureKnown, StopKnown, PollKnown
<1> QED
  BY <1>1, <1>2, <1>3, <1>4, <1>5
  DEF DesktopInv, ChildNotEnded, AttemptsFit, WorkersFit

-------------------------------------------------------------------------------
(* DesktopWorker: one attempt changes *)

LEMMA OneLaunch ==
  ASSUME launch \in Seq(DeskAttempts), NEW l \in DOMAIN launch, NEW b \in DeskAttempts,
         launch' = [launch EXCEPT ![l] = b]
  PROVE  /\ launch' \in Seq(DeskAttempts) /\ DOMAIN launch' = DOMAIN launch
         /\ launch'[l] = b
         /\ \A k \in DOMAIN launch : k # l => launch'[k] = launch[k]
BY LenProperties, ExceptSeq

\* What a message, an event or a timer changes of attempt l: not what it is nor
\* whether it is over, and nothing that is said of its end.
SameCourse(b, a) ==
  /\ b.kind = a.kind /\ b.managed = a.managed /\ b.computer = a.computer
  /\ b.current = a.current /\ b.ended = a.ended /\ b.stopReq = a.stopReq
  /\ b.up => a.up
  /\ b.ended => b.sent = {} /\ (b.left => a.left)
  /\ b.left => b.kind = "worker" /\ b.code = "other"
  /\ b.restart # "off" => a.restart # "off"

LEMMA CourseKept ==
  ASSUME DesktopInv, NEW l \in DOMAIN launch, NEW b \in DeskAttempts,
         launch' = [launch EXCEPT ![l] = b], SameCourse(b, launch[l]),
         UNCHANGED <<child, enrolled, profile>>, deskOp' \in {deskOp, NoOp},
         desk' \in Desks, desk'.failure = desk.failure,
         desk'.stopRequested = desk.stopRequested, desk'.poll = desk.poll,
         desk.failure => desk'.state = "failed",
         desk'.state = "running" => desk.state = "running" /\ (l = child => LiveWorker(b)),
         seen' \in DeskSeen, seen'.wanted = seen.wanted, seen'.claims = seen.claims,
         seen.proved \subseteq seen'.proved,
         b.kind = "provision" /\ b.code = "zero" => b.computer \in seen'.proved
  PROVE  DesktopInv'
<1> USE DEF DesktopInv
<1>1. /\ launch' \in Seq(DeskAttempts) /\ DOMAIN launch' = DOMAIN launch
      /\ launch'[l] = b
      /\ \A k \in DOMAIN launch : k # l => launch'[k] = launch[k]
  BY OneLaunch DEF DesktopTypeOK
<1>2. DesktopTypeOK'
  BY <1>1 DEF NoOp, DeskOps, DesktopTypeOK
<1>3. ChildNotEnded'
  BY <1>1 DEF ChildNotEnded, SameCourse
<1>4. AttemptsFit'
  <2> SUFFICES ASSUME NEW k \in DOMAIN launch
               PROVE  AttemptFits(launch'[k], seen'.proved, seen'.wanted, desk'.failure)
    BY <1>1 DEF AttemptsFit
  <2>1. AttemptFits(launch[k], seen.proved, seen.wanted, desk.failure)
    BY DEF AttemptsFit
  <2>2. CASE k = l
    BY <1>1, <2>1, <2>2 DEF AttemptFits, SameCourse
  <2>3. CASE k # l
    BY <1>1, <2>1, <2>3 DEF AttemptFits
  <2> QED
    BY <2>2, <2>3
<1>5. FailureKnown'
  BY DEF FailureKnown
<1>6. StopKnown' /\ PollKnown'
  BY <1>1 DEF StopKnown, PollKnown, SameCourse, DesktopTypeOK
<1>7. OperationFits'
  BY <1>1 DEF OperationFits, NoOp, Stopping, SameCourse
<1>8. ClaimsCounted'
  BY DEF ClaimsCounted
<1>9. WorkersFit'
  BY <1>1 DEF WorkersFit, SameCourse
<1>10. RunningKnown'
  BY <1>1 DEF RunningKnown, DesktopTypeOK
<1> QED
  BY <1>2, <1>3, <1>4, <1>5, <1>6, <1>7, <1>8, <1>9, <1>10

-------------------------------------------------------------------------------
(* DesktopWorker: nothing of the processes changes *)

\* What is forgotten of earlier attempts: that they may be restarted.  The owned
\* one may be asked to stop.
Forgets(b, a) ==
  /\ b.kind = a.kind /\ b.managed = a.managed /\ b.computer = a.computer
  /\ b.ended = a.ended /\ b.up = a.up /\ b.sent = a.sent /\ b.code = a.code
  /\ b.left = a.left
  /\ a.ended => b.stopReq = a.stopReq
  /\ b.current => a.current
  /\ b.restart # "off" => a.restart # "off"

Quieter(ls) ==
  /\ ls \in Seq(DeskAttempts) /\ Len(ls) = Len(launch)
  /\ \A k \in DOMAIN launch : Forgets(ls[k], launch[k])

\* What a step of an operation keeps of the controller.
DeskGoesOn(d) ==
  /\ d \in Desks /\ d.failure = desk.failure
  /\ d.poll # NoPoll => desk.poll # NoPoll /\ d.poll.on = desk.poll.on

LEMMA QuietKept ==
  ASSUME DesktopInv, Quieter(launch'), DeskGoesOn(desk'), desk'.state # "running",
         desk.failure => desk'.state = "failed",
         child # 0 => (launch'[child].stopReq => desk'.stopRequested),
         UNCHANGED <<child, profile>>,
         enrolled' = enrolled \/ (child = 0 /\ enrolled' \in Computers \cup {"none"}),
         seen' \in DeskSeen, seen'.claims = seen.claims, seen'.proved = seen.proved,
         \/ seen'.wanted = seen.wanted
         \/ child = 0 /\ \A k \in DOMAIN launch : ~launch'[k].current,
         \/ deskOp' = NoOp
         \/ /\ deskOp' \in DeskOps /\ deskOp'.name \in Stopping
            /\ child # 0 /\ deskOp'.on = child
            /\ \A k \in DOMAIN launch : ~launch'[k].current
  PROVE  DesktopInv'
<1> USE DEF DesktopInv
<1>1. /\ launch' \in Seq(DeskAttempts) /\ DOMAIN launch' = DOMAIN launch
      /\ \A k \in DOMAIN launch : Forgets(launch'[k], launch[k])
  BY LenProperties DEF DesktopTypeOK, Quieter
<1>0. DOMAIN launch \subseteq Nat \ {0}
  BY LenProperties DEF DesktopTypeOK
<1>2. DesktopTypeOK'
  BY <1>1 DEF NoOp, DeskOps, DesktopTypeOK, DeskGoesOn
<1>3. ChildNotEnded'
  BY <1>1 DEF ChildNotEnded, Forgets
<1>4. AttemptsFit'
  <2> SUFFICES ASSUME NEW k \in DOMAIN launch
               PROVE  AttemptFits(launch'[k], seen'.proved, seen'.wanted, desk'.failure)
    BY <1>1 DEF AttemptsFit
  <2>1. AttemptFits(launch[k], seen.proved, seen.wanted, desk.failure)
    BY DEF AttemptsFit
  <2> QED
    BY <1>1, <2>1 DEF AttemptFits, Forgets, DeskGoesOn
<1>5. FailureKnown'
  BY DEF FailureKnown, DeskGoesOn
<1>6. StopKnown' /\ PollKnown'
  BY <1>1 DEF StopKnown, PollKnown, Forgets, DesktopTypeOK, DeskGoesOn
<1>7. OperationFits'
  BY <1>1 DEF OperationFits, NoOp, Stopping, DesktopTypeOK
<1>8. ClaimsCounted'
  BY DEF ClaimsCounted
<1>9. WorkersFit'
  BY <1>0, <1>1 DEF ChildNotEnded, AttemptsFit, AttemptFits, Forgets, WorkersFit
<1>10. RunningKnown'
  BY DEF RunningKnown
<1> QED
  BY <1>2, <1>3, <1>4, <1>5, <1>6, <1>7, <1>8, <1>9, <1>10

-------------------------------------------------------------------------------
(* DesktopWorker: a process is started *)

LEMMA AppendLaunch ==
  ASSUME NEW ls \in Seq(DeskAttempts), NEW a \in DeskAttempts,
         launch \in Seq(DeskAttempts), Quieter(ls), launch' = Append(ls, a)
  PROVE  /\ launch' \in Seq(DeskAttempts) /\ DOMAIN launch' = DOMAIN launch \cup {Len(ls) + 1}
         /\ Len(ls) + 1 \notin DOMAIN launch /\ Len(ls) + 1 \in Nat \ {0}
         /\ launch'[Len(ls) + 1] = a
         /\ \A k \in DOMAIN launch : Forgets(launch'[k], launch[k])
<1>1. DOMAIN launch = 1 .. Len(launch) /\ Len(ls) = Len(launch) /\ Len(ls) \in Nat
  BY LenProperties DEF Quieter
<1>2. /\ launch' \in Seq(DeskAttempts) /\ Len(launch') = Len(ls) + 1
      /\ \A i \in 1 .. Len(ls) : launch'[i] = ls[i]
      /\ launch'[Len(ls) + 1] = a
  BY AppendProperties
<1>3. DOMAIN launch' = 1 .. Len(launch')
  BY <1>2, LenProperties
<1>4. \A k \in DOMAIN launch : launch'[k] = ls[k]
  BY <1>1, <1>2
<1>5. \A k \in DOMAIN launch : Forgets(launch'[k], launch[k])
  BY <1>4 DEF Quieter
<1> QED
  BY <1>1, <1>2, <1>3, <1>5

\* An attempt of which nothing has been heard.
Fresh(a) ==
  /\ a \in DeskAttempts /\ a.computer = enrolled
  /\ ~a.ended /\ a.sent = {} /\ ~a.left /\ a.restart = "off" /\ a.code = "none" /\ ~a.stopReq

LEMMA AttemptIsFresh ==
  ASSUME DesktopTypeOK, NEW kind \in {"worker", "provision"}, NEW managed \in BOOLEAN
  PROVE  /\ Fresh(Attempt(kind, managed))
         /\ Attempt(kind, managed).kind = kind /\ Attempt(kind, managed).managed = managed
<1>1. PICK no : no = FALSE
  OBVIOUS
<1>2. PICK yes : yes = TRUE
  OBVIOUS
<1> DEFINE a == [kind |-> kind, managed |-> managed, computer |-> enrolled,
   up |-> yes, asked |-> no, sent |-> {}, code |-> "none", left |-> no,
   current |-> yes, restart |-> "off", stopReq |-> no, abandoned |-> no,
   ready |-> no, stopped |-> no, reply |-> no, error |-> no,
   exited |-> no, closed |-> no, ended |-> no]
<1>3. a = Attempt(kind, managed)
  BY <1>1, <1>2 DEF Attempt
<1>4. a \in DeskAttempts
  BY <1>1, <1>2 DEF DeskAttempts, DesktopTypeOK
<1>5. a.computer = enrolled /\ ~a.ended /\ a.sent = {} /\ ~a.left /\ a.restart = "off"
      /\ a.code = "none" /\ ~a.stopReq /\ a.kind = kind /\ a.managed = managed
  BY <1>1
<1> QED
  BY <1>3, <1>4, <1>5 DEF Fresh

\* The process of an operation that found none: a worker for the selected
\* computer's profile, or the preparation of its workspaces.
LEMMA SpawnKept ==
  ASSUME DesktopInv, NEW ls \in Seq(DeskAttempts), Quieter(ls), NEW a, Fresh(a),
         launch' = Append(ls, a), child = 0, child' = Len(ls) + 1,
         DeskGoesOn(desk'), desk'.state # "running", ~desk.failure,
         enrolled' = enrolled, seen' \in DeskSeen,
         seen'.proved = seen.proved, seen'.claims = seen.claims,
         \/ /\ a.kind = "worker" /\ deskOp' = NoOp /\ profile' = profile
            /\ profile[enrolled] = IF a.managed THEN "ready" ELSE "none"
            /\ seen'.wanted
         \/ /\ a.kind = "provision" /\ enrolled \in Computers
            /\ deskOp' \in DeskOps /\ deskOp'.name = "prepare" /\ deskOp'.on = Len(ls) + 1
            /\ profile' = [profile EXCEPT ![enrolled] = "incomplete"]
            /\ seen'.wanted = seen.wanted
  PROVE  DesktopInv'
<1> USE DEF DesktopInv
<1>1. a \in DeskAttempts
  BY DEF Fresh
<1> DEFINE n == Len(ls) + 1
<1>2. /\ launch' \in Seq(DeskAttempts) /\ DOMAIN launch' = DOMAIN launch \cup {n}
      /\ n \notin DOMAIN launch /\ n \in Nat \ {0} /\ launch'[n] = a /\ child' = n
      /\ \A k \in DOMAIN launch : Forgets(launch'[k], launch[k])
  BY <1>1, AppendLaunch DEF DesktopTypeOK
<1> HIDE DEF n
<1>3. DOMAIN launch \subseteq Nat \ {0}
  BY LenProperties DEF DesktopTypeOK
<1>4. \A k \in DOMAIN launch : launch[k].ended /\ ~launch[k].up
  BY <1>3 DEF ChildNotEnded, AttemptsFit, AttemptFits
<1>5. DesktopTypeOK'
  <2>1. NoOp \in DeskOps
    BY DEF NoOp, DeskOps
  <2> QED
    BY <1>2, <2>1 DEF DesktopTypeOK, DeskGoesOn
<1>6. ChildNotEnded'
  BY <1>2, <1>4 DEF ChildNotEnded, Forgets, Fresh
<1>7. AttemptsFit'
  BY <1>2 DEF AttemptsFit, AttemptFits, Forgets, DeskGoesOn, Fresh
<1>8. FailureKnown'
  BY DEF FailureKnown, DeskGoesOn
<1>9. StopKnown' /\ PollKnown'
  BY <1>2 DEF StopKnown, PollKnown, Forgets, Fresh, DeskGoesOn
<1>10. OperationFits'
  BY <1>2 DEF OperationFits, NoOp, Stopping, Fresh, DeskGoesOn
<1>11. ClaimsCounted'
  BY DEF ClaimsCounted, DesktopTypeOK
<1>12. WorkersFit'
  BY <1>2, <1>4 DEF WorkersFit, Forgets, Fresh
<1>13. RunningKnown'
  BY DEF RunningKnown
<1> QED
  BY <1>5, <1>6, <1>7, <1>8, <1>9, <1>10, <1>11, <1>12, <1>13

-------------------------------------------------------------------------------
(* DesktopWorker: an attempt is over *)

Concluded(a, restart) ==
  [a EXCEPT !.ended = TRUE, !.closed = TRUE, !.ready = FALSE, !.sent = {}, !.asked = FALSE,
            !.restart = restart]

LEMMA EndedAttempt ==
  ASSUME NEW a \in DeskAttempts, NEW restart \in {"off", "armed", "queued"}, NEW b,
         b = Concluded(a, restart)
  PROVE  /\ b \in DeskAttempts /\ b.ended /\ b.sent = {} /\ b.restart = restart
         /\ b.kind = a.kind /\ b.managed = a.managed /\ b.computer = a.computer
         /\ b.up = a.up /\ b.code = a.code /\ b.left = a.left /\ b.current = a.current
         /\ b.stopReq = a.stopReq
<1> USE DEF DeskAttempts
<1>1. PICK b1 : b1 = [a EXCEPT !.ended = TRUE]
  OBVIOUS
<1>2. PICK b2 : b2 = [b1 EXCEPT !.closed = TRUE]
  OBVIOUS
<1>3. PICK b3 : b3 = [b2 EXCEPT !.ready = FALSE]
  OBVIOUS
<1>4. PICK b4 : b4 = [b3 EXCEPT !.sent = {}]
  OBVIOUS
<1>5. PICK b5 : b5 = [b4 EXCEPT !.asked = FALSE]
  OBVIOUS
<1>6. b = [b5 EXCEPT !.restart = restart]
  BY <1>1, <1>2, <1>3, <1>4, <1>5 DEF Concluded
<1> QED
  BY <1>1, <1>2, <1>3, <1>4, <1>5, <1>6, ZenonT(60)

\* The last of what is said of the controller's state.
FailedDesk(d, failure, restarts, timer) ==
  [d EXCEPT !.state = "failed", !.failure = failure, !.restarts = restarts, !.timer = timer]

LEMMA EndedDesk ==
  ASSUME NEW d \in Desks, NEW failure \in BOOLEAN, NEW restarts \in Nat, NEW timer \in Nat,
         NEW e, e = FailedDesk(d, failure, restarts, timer)
  PROVE  /\ e \in Desks /\ e.state = "failed" /\ e.failure = failure
         /\ e.poll = d.poll /\ e.stopRequested = d.stopRequested
<1>1. PICK e1 : e1 = [d EXCEPT !.state = "failed"]
  OBVIOUS
<1>2. PICK e2 : e2 = [e1 EXCEPT !.failure = failure]
  OBVIOUS
<1>3. PICK e3 : e3 = [e2 EXCEPT !.restarts = restarts]
  OBVIOUS
<1>4. e = [e3 EXCEPT !.timer = timer]
  BY <1>1, <1>2, <1>3 DEF FailedDesk
<1> QED
  BY <1>1, <1>2, <1>3, <1>4 DEF Desks, DeskStates

LEMMA EndedKept ==
  ASSUME DesktopInv, NEW l \in DOMAIN launch, ~launch[l].up, NEW a \in DeskAttempts,
         a.kind = launch[l].kind, a.managed = launch[l].managed, a.computer = launch[l].computer,
         a.up = launch[l].up, a.code = launch[l].code, a.left = launch[l].left,
         a.current = launch[l].current, a.stopReq = launch[l].stopReq,
         a.restart = launch[l].restart,
         Ended(l, a), UNCHANGED <<deskOp, enrolled, profile, seen>>
  PROVE  DesktopInv'
<1> USE DEF DesktopInv
<1> DEFINE restarts == a.kind = "worker" /\ ~a.stopReq /\ ~a.managed /\ desk.restarts < MaxRestarts
<1>0. PICK restart : restart = IF restarts THEN "armed" ELSE a.restart
  OBVIOUS
<1>1. PICK b : b = Concluded(a, restart)
  OBVIOUS
<1>2. child = l /\ child' = 0 /\ launch' = [launch EXCEPT ![l] = b]
  BY <1>0, <1>1 DEF Ended, Concluded
<1>3. restart \in {"off", "armed", "queued"} /\ (restart # "off" => a.kind = "worker")
  BY <1>0 DEF DeskAttempts, AttemptsFit, AttemptFits
<1>4. /\ b \in DeskAttempts /\ b.ended /\ b.sent = {} /\ b.restart = restart
      /\ b.kind = a.kind /\ b.managed = a.managed /\ b.computer = a.computer
      /\ b.up = a.up /\ b.code = a.code /\ b.left = a.left /\ b.current = a.current
      /\ b.stopReq = a.stopReq
  BY ONLY a \in DeskAttempts, <1>1, <1>3, EndedAttempt
<1>5. /\ launch' \in Seq(DeskAttempts) /\ DOMAIN launch' = DOMAIN launch /\ launch'[l] = b
      /\ \A k \in DOMAIN launch : k # l => launch'[k] = launch[k]
  BY <1>2, <1>4, OneLaunch DEF DesktopTypeOK
<1>6. l \in Nat \ {0} /\ DOMAIN launch \subseteq Nat
  BY LenProperties DEF DesktopTypeOK
<1>7. ~desk.failure
  BY <1>2, <1>6 DEF FailureKnown
<1>8. desk \in Desks
  BY DEF DesktopTypeOK
<1>9. /\ desk' \in Desks /\ desk'.poll = desk.poll /\ desk'.stopRequested = desk.stopRequested
      /\ desk'.failure => desk'.state = "failed"
      /\ desk'.state = "running" => a.kind = "provision" /\ desk' = desk
      /\ a.kind = "provision" => ~desk'.failure
      /\ a.kind = "worker" /\ ~CleanStop(a) => (a.stopReq \/ a.managed => desk'.failure)
  <2>1. CASE a.kind = "provision" /\ desk' = desk
    BY <1>7, <1>8, <2>1
  <2>2. CASE a.kind = "provision" /\ desk' = [desk EXCEPT !.state = "failed"]
    BY <1>7, <1>8, <2>2 DEF Desks, DeskStates
  <2>3. CASE a.kind = "worker" /\ CleanStop(a)
    <3>1. desk' = [desk EXCEPT !.state = "stopped", !.failure = FALSE]
      BY <2>3 DEF Ended
    <3>2. desk' \in Desks /\ desk'.poll = desk.poll /\ desk'.stopRequested = desk.stopRequested
          /\ desk'.state = "stopped" /\ ~desk'.failure
      <4>1. PICK e1 : e1 = [desk EXCEPT !.state = "stopped"]
        OBVIOUS
      <4>2. desk' = [e1 EXCEPT !.failure = FALSE]
        BY <3>1, <4>1
      <4> QED
        BY <1>8, <4>1, <4>2 DEF Desks, DeskStates
    <3> QED
      BY <2>3, <3>2
  <2>4. CASE a.kind = "worker" /\ ~CleanStop(a)
    <3> DEFINE failure == desk.failure \/ a.stopReq \/ a.managed
               number == IF restarts THEN desk.restarts + 1 ELSE desk.restarts
               timer == IF restarts THEN l ELSE desk.timer
    <3>1. desk' = FailedDesk(desk, failure, number, timer)
      BY <2>4 DEF Ended, FailedDesk
    <3>2. failure \in BOOLEAN /\ number \in Nat /\ timer \in Nat
      BY <1>6, <1>8 DEF Desks, DeskAttempts
    <3>3. a.stopReq \/ a.managed => failure
      OBVIOUS
    <3> HIDE DEF failure, number, timer
    <3>4. desk' \in Desks /\ desk'.state = "failed" /\ desk'.failure = failure
          /\ desk'.poll = desk.poll /\ desk'.stopRequested = desk.stopRequested
      BY ONLY <1>8, <3>1, <3>2, EndedDesk
    <3> QED
      BY <2>4, <3>3, <3>4
  <2>5. a.kind = "provision" => desk' = desk \/ desk' = [desk EXCEPT !.state = "failed"]
    BY DEF Ended, CleanStop
  <2>6. a.kind \in {"worker", "provision"}
    BY DEF DeskAttempts
  <2>7. CASE a.kind = "provision"
    BY ONLY <2>1, <2>2, <2>5, <2>7
  <2>8. CASE a.kind = "worker"
    BY ONLY <2>3, <2>4, <2>8
  <2> QED
    BY ONLY <2>6, <2>7, <2>8
<1> HIDE DEF restarts
<1>10. DesktopTypeOK'
  BY <1>2, <1>5, <1>9 DEF DesktopTypeOK
<1>11. ChildNotEnded'
  BY <1>2, <1>4, <1>5, <1>6 DEF ChildNotEnded
<1>12. AttemptsFit'
  <2> SUFFICES ASSUME NEW k \in DOMAIN launch
               PROVE  AttemptFits(launch'[k], seen.proved, seen.wanted, desk'.failure)
    BY <1>5 DEF AttemptsFit
  <2>1. AttemptFits(launch[k], seen.proved, seen.wanted, FALSE)
    BY <1>7 DEF AttemptsFit, AttemptFits
  <2>2. CASE k # l
    BY <1>5, <2>1, <2>2 DEF AttemptFits
  <2>3. CASE k = l
    BY <1>4, <2>1, <2>3, <1>3, <1>5, <1>9 DEF CleanStop, SuccessfulExit, AttemptFits
  <2> QED
    BY <2>2, <2>3
<1>13. FailureKnown' /\ StopKnown'
  BY <1>2, <1>9 DEF FailureKnown, StopKnown
<1>14. PollKnown'
  BY <1>4, <1>5, <1>9 DEF PollKnown
<1>15. OperationFits'
  BY <1>2, <1>4, <1>5, <1>6, <1>9 DEF OperationFits
<1>16. ClaimsCounted'
  BY DEF ClaimsCounted
<1>17. WorkersFit'
  BY <1>4, <1>5 DEF WorkersFit
<1>18. RunningKnown'
  BY <1>2, <1>6, <1>9 DEF RunningKnown, LiveWorker
<1> QED
  BY <1>10, <1>11, <1>12, <1>13, <1>14, <1>15, <1>16, <1>17, <1>18

-------------------------------------------------------------------------------
(* DesktopWorker: the child's messages and events *)

LEMMA DeskFacts ==
  ASSUME DesktopInv
  PROVE  /\ DOMAIN launch \subseteq Nat \ {0}
         /\ desk \in Desks /\ seen \in DeskSeen /\ deskOp \in DeskOps
         /\ enrolled \in Computers \cup {"none"}
         /\ child # 0 => child \in DOMAIN launch /\ ~desk.failure
         /\ \A l \in DOMAIN launch :
              /\ launch[l] \in DeskAttempts
              /\ AttemptFits(launch[l], seen.proved, seen.wanted, desk.failure)
              /\ ~launch[l].ended <=> l = child
              /\ launch[l].up => l = child
<1>1. DOMAIN launch = 1 .. Len(launch) /\ Len(launch) \in Nat
  BY LenProperties DEF DesktopInv, DesktopTypeOK
<1>2. \A l \in DOMAIN launch : launch[l] \in DeskAttempts
  BY <1>1, ElementOfSeq DEF DesktopInv, DesktopTypeOK
<1> QED
  BY <1>1, <1>2 DEF DesktopInv, DesktopTypeOK, ChildNotEnded, FailureKnown, AttemptsFit, AttemptFits

LEMMA WorkerStartsKept ==
  ASSUME DesktopInv, NEW l \in DOMAIN launch, WorkerStarts(l)
  PROVE  DesktopInv'
<1> DEFINE a == launch[l]
<1>1. a \in DeskAttempts /\ AttemptFits(a, seen.proved, seen.wanted, desk.failure) /\ a.up
  BY DeskFacts DEF WorkerStarts
<1>2. PICK b : b = [a EXCEPT !.sent = a.sent \cup {"ready"}]
  OBVIOUS
<1>3. launch' = [launch EXCEPT ![l] = b]
  BY <1>2 DEF WorkerStarts
<1>4. b \in DeskAttempts /\ SameCourse(b, a) /\ b.code = a.code /\ (LiveWorker(a) => LiveWorker(b))
  BY <1>1, <1>2 DEF DeskAttempts, SameCourse, AttemptFits, LiveWorker
<1>5. l = child /\ desk \in Desks /\ seen \in DeskSeen
  BY <1>1, DeskFacts
<1>6. desk.state = "running" => LiveWorker(b)
  BY <1>4, <1>5 DEF DesktopInv, RunningKnown
<1>7. b.kind = "provision" /\ b.code = "zero" => b.computer \in seen.proved
  BY <1>1, <1>4 DEF AttemptFits, SameCourse
<1>8. desk.failure => desk.state = "failed"
  BY DEF DesktopInv, FailureKnown
<1>9. UNCHANGED <<child, desk, deskOp, enrolled, profile, seen>>
  BY DEF WorkerStarts
<1> HIDE DEF a
<1> QED
  BY <1>3, <1>4, <1>5, <1>6, <1>7, <1>8, <1>9, CourseKept DEF a

LEMMA ChildEndsKept ==
  ASSUME DesktopInv, NEW l \in DOMAIN launch, ChildEnds(l)
  PROVE  DesktopInv'
<1>1. PICK a : a = launch[l]
  OBVIOUS
<1>2. /\ a \in DeskAttempts /\ AttemptFits(a, seen.proved, seen.wanted, desk.failure) /\ a.up
      /\ l = child /\ desk \in Desks /\ seen \in DeskSeen
  BY <1>1, DeskFacts DEF ChildEnds
<1>0. PICK told \in SUBSET {IF launch[l].kind = "worker" THEN "stopped" ELSE "reply"},
           exitCode \in {"zero", "other"}, left \in BOOLEAN :
       /\ exitCode = "zero" => told # {}
       /\ left => launch[l].kind = "worker" /\ told = {}
       /\ launch[l].kind = "provision" /\ launch[l].asked => exitCode = "other"
       /\ launch' = [launch EXCEPT ![l].up = FALSE, ![l].code = exitCode, ![l].left = left,
                                   ![l].sent = @ \cup told]
       /\ seen' = [seen EXCEPT !.proved =
                     IF launch[l].kind = "provision" /\ exitCode = "zero"
                     THEN @ \cup {launch[l].computer} ELSE @]
  BY DEF ChildEnds
<1>3. /\ told \in SUBSET {IF a.kind = "worker" THEN "stopped" ELSE "reply"}
      /\ exitCode = "zero" => told # {}
      /\ left => a.kind = "worker" /\ told = {}
      /\ launch' = [launch EXCEPT ![l].up = FALSE, ![l].code = exitCode, ![l].left = left,
                                  ![l].sent = @ \cup told]
      /\ seen' = [seen EXCEPT !.proved =
                    IF a.kind = "provision" /\ exitCode = "zero"
                    THEN @ \cup {a.computer} ELSE @]
  BY <1>0, <1>1
<1>4. PICK b1 : b1 = [a EXCEPT !.up = FALSE]
  OBVIOUS
<1>5. PICK b2 : b2 = [b1 EXCEPT !.code = exitCode]
  OBVIOUS
<1>6. PICK b3 : b3 = [b2 EXCEPT !.left = left]
  OBVIOUS
<1>7. PICK b : b = [b3 EXCEPT !.sent = a.sent \cup told]
  OBVIOUS
<1>8. told \subseteq {"ready", "stopped", "reply"}
  BY <1>3
<1>9. b1 \in DeskAttempts /\ SameCourse(b1, a) /\ ~b1.up /\ b1.sent = a.sent
      /\ (LiveWorker(a) => LiveWorker(b1))
  BY <1>2, <1>4 DEF DeskAttempts, SameCourse, AttemptFits, LiveWorker
<1>10. b2 \in DeskAttempts /\ b2.code = exitCode /\ b2.sent = a.sent /\ ~b2.up /\ b2.left = b1.left
       /\ (LiveWorker(a) => LiveWorker(b2)) /\ b2.restart = b1.restart
       /\ b2.kind = a.kind /\ b2.managed = a.managed /\ b2.computer = a.computer
       /\ b2.current = a.current /\ b2.ended = a.ended /\ b2.stopReq = a.stopReq
  BY <1>9, <1>5 DEF DeskAttempts, SameCourse, LiveWorker
<1>11. b3 \in DeskAttempts /\ b3.code = exitCode /\ b3.sent = a.sent /\ ~b3.up /\ b3.left = left
       /\ (LiveWorker(a) => LiveWorker(b3)) /\ b3.restart = b1.restart
       /\ b3.kind = a.kind /\ b3.managed = a.managed /\ b3.computer = a.computer
       /\ b3.current = a.current /\ b3.ended = a.ended /\ b3.stopReq = a.stopReq
  BY <1>10, <1>6 DEF DeskAttempts, LiveWorker
<1>12. b \in DeskAttempts /\ b.code = exitCode /\ ~b.up /\ b.left = left
       /\ (LiveWorker(a) => LiveWorker(b)) /\ b.restart = b1.restart
       /\ b.kind = a.kind /\ b.managed = a.managed /\ b.computer = a.computer
       /\ b.current = a.current /\ b.ended = a.ended /\ b.stopReq = a.stopReq
  BY <1>2, <1>8, <1>11, <1>7 DEF DeskAttempts, LiveWorker
<1>13. ~a.ended
  BY <1>2 DEF AttemptFits
<1>14. left => exitCode = "other"
  BY <1>3
<1>15. SameCourse(b, a)
  BY <1>3, <1>9, <1>12, <1>13, <1>14 DEF SameCourse
<1>16. launch' = [launch EXCEPT ![l] = b]
  BY <1>1, <1>3, <1>4, <1>5, <1>6, <1>7
<1>17. /\ seen' \in DeskSeen /\ seen'.wanted = seen.wanted /\ seen'.claims = seen.claims
       /\ seen.proved \subseteq seen'.proved
       /\ a.kind = "provision" /\ exitCode = "zero" => a.computer \in seen'.proved
  BY <1>2, <1>3 DEF DeskSeen, DeskAttempts
<1>18. desk.state = "running" => LiveWorker(b)
  BY <1>1, <1>2, <1>12 DEF DesktopInv, RunningKnown
<1>19. desk.failure => desk.state = "failed"
  BY DEF DesktopInv, FailureKnown
<1>20. UNCHANGED <<child, desk, deskOp, enrolled, profile>>
  BY DEF ChildEnds
<1> QED
  BY <1>1, <1>2, <1>12, <1>15, <1>16, <1>17, <1>18, <1>19, <1>20, CourseKept

\* A new state of the controller that is not "running".
LEMMA DeskStateSet ==
  ASSUME NEW d \in Desks, NEW s \in DeskStates, NEW e, e = [d EXCEPT !.state = s]
  PROVE  /\ e \in Desks /\ e.state = s /\ e.failure = d.failure /\ e.poll = d.poll
         /\ e.stopRequested = d.stopRequested /\ e.lost = d.lost
BY DEF Desks

LEMMA MessageSeenKept ==
  ASSUME DesktopInv, NEW l \in DOMAIN launch, NEW m \in {"ready", "stopped", "reply"},
         MessageSeen(l, m)
  PROVE  DesktopInv'
<1>1. PICK a : a = launch[l]
  OBVIOUS
<1>2. /\ a \in DeskAttempts /\ AttemptFits(a, seen.proved, seen.wanted, desk.failure)
      /\ desk \in Desks /\ seen \in DeskSeen /\ DOMAIN launch \subseteq Nat \ {0}
  BY <1>1, DeskFacts
<1>3. ~a.ended
  BY <1>1, <1>2 DEF AttemptFits, MessageSeen
<1>4. l = child /\ ~desk.failure
  BY <1>1, <1>2, <1>3, DeskFacts
<1>5. PICK a1 : a1 = [a EXCEPT !.sent = a.sent \ {m}]
  OBVIOUS
<1>6. a1 \in DeskAttempts /\ SameCourse(a1, a) /\ a1.code = a.code /\ a1.abandoned = a.abandoned
      /\ (LiveWorker(a) => LiveWorker(a1)) /\ ~a1.ended
  BY <1>2, <1>3, <1>5 DEF DeskAttempts, SameCourse, AttemptFits, LiveWorker
<1>7. PICK b : b = CASE m = "reply" -> [a1 EXCEPT !.reply = ~a1.abandoned]
                [] m = "ready" -> [a1 EXCEPT !.ready = ~(a1.stopReq \/ a1.stopped \/ a1.error)]
                [] m = "stopped" -> [a1 EXCEPT !.stopped = TRUE]
  OBVIOUS
<1>8. launch' = [launch EXCEPT ![l] = b]
  BY <1>1, <1>5, <1>7 DEF MessageSeen
<1>9. b \in DeskAttempts /\ SameCourse(b, a) /\ b.code = a.code
      /\ (m # "stopped" /\ LiveWorker(a) => LiveWorker(b))
  <2>1. CASE m = "reply"
    <3>1. PICK x \in BOOLEAN : x = ~a1.abandoned
      OBVIOUS
    <3>2. b = [a1 EXCEPT !.reply = x]
      BY <1>7, <2>1, <3>1
    <3> QED
      BY <1>6, <3>2 DEF DeskAttempts, SameCourse, LiveWorker
  <2>2. CASE m = "ready"
    <3>1. PICK x \in BOOLEAN : x = ~(a1.stopReq \/ a1.stopped \/ a1.error)
      OBVIOUS
    <3>2. b = [a1 EXCEPT !.ready = x]
      BY <1>7, <2>2, <3>1
    <3>3. LiveWorker(a1) => x
      BY <3>1 DEF LiveWorker
    <3> QED
      BY <1>6, <3>2, <3>3 DEF DeskAttempts, SameCourse, LiveWorker
  <2>3. CASE m = "stopped"
    BY <1>6, <1>7, <2>3 DEF DeskAttempts, SameCourse
  <2> QED
    BY <2>1, <2>2, <2>3
<1>10. /\ desk' \in Desks /\ desk'.failure = desk.failure /\ desk'.poll = desk.poll
       /\ desk'.stopRequested = desk.stopRequested
       /\ desk'.state = "running" => desk.state = "running" /\ m # "stopped"
  BY <1>2, DeskStateSet DEF MessageSeen, DeskStates
<1>11. desk'.state = "running" => LiveWorker(b)
  BY <1>1, <1>4, <1>9, <1>10 DEF DesktopInv, RunningKnown
<1>12. b.kind = "provision" /\ b.code = "zero" => b.computer \in seen.proved
  BY <1>2, <1>9 DEF AttemptFits, SameCourse
<1>13. UNCHANGED <<child, deskOp, enrolled, profile, seen>>
  BY DEF MessageSeen
<1> QED
  BY <1>1, <1>2, <1>4, <1>8, <1>9, <1>10, <1>11, <1>12, <1>13, CourseKept

LEMMA ErrorSeenKept ==
  ASSUME DesktopInv, NEW l \in DOMAIN launch, ErrorSeen(l)
  PROVE  DesktopInv'
<1>1. PICK a : a = launch[l]
  OBVIOUS
<1>2. /\ a \in DeskAttempts /\ AttemptFits(a, seen.proved, seen.wanted, desk.failure)
      /\ desk \in Desks /\ seen \in DeskSeen /\ a.up /\ l = child /\ ~desk.failure
  BY <1>1, DeskFacts DEF ErrorSeen
<1>3. PICK b : b = [a EXCEPT !.error = TRUE]
  OBVIOUS
<1>4. launch' = [launch EXCEPT ![l] = b]
  BY <1>1, <1>3 DEF ErrorSeen
<1>5. b \in DeskAttempts /\ SameCourse(b, a) /\ b.code = a.code
  BY <1>2, <1>3 DEF DeskAttempts, SameCourse, AttemptFits
<1>6. /\ desk' \in Desks /\ desk'.failure = desk.failure /\ desk'.poll = desk.poll
      /\ desk'.stopRequested = desk.stopRequested /\ desk'.state # "running"
  BY <1>2, DeskStateSet DEF ErrorSeen, DeskStates
<1>7. b.kind = "provision" /\ b.code = "zero" => b.computer \in seen.proved
  BY <1>2, <1>5 DEF AttemptFits, SameCourse
<1>8. UNCHANGED <<child, deskOp, enrolled, profile, seen>>
  BY DEF ErrorSeen
<1> QED
  BY <1>1, <1>2, <1>4, <1>5, <1>6, <1>7, <1>8, CourseKept

\* Timers and queued restarts change nothing else.
LEMMA RestartMoved ==
  ASSUME DesktopInv, NEW l \in DOMAIN launch, NEW restart \in {"off", "armed", "queued"},
         restart # "off" => launch[l].restart # "off",
         launch' = [launch EXCEPT ![l].restart = restart],
         UNCHANGED <<child, desk, enrolled, profile, seen>>, deskOp' \in {deskOp, NoOp}
  PROVE  DesktopInv'
<1>1. PICK a : a = launch[l]
  OBVIOUS
<1>2. /\ a \in DeskAttempts /\ AttemptFits(a, seen.proved, seen.wanted, desk.failure)
      /\ desk \in Desks /\ seen \in DeskSeen
  BY <1>1, DeskFacts
<1>3. PICK b : b = [a EXCEPT !.restart = restart]
  OBVIOUS
<1>4. launch' = [launch EXCEPT ![l] = b]
  BY <1>1, <1>3
<1>5. b \in DeskAttempts /\ SameCourse(b, a) /\ b.code = a.code /\ (LiveWorker(a) => LiveWorker(b))
  BY <1>1, <1>2, <1>3 DEF DeskAttempts, SameCourse, AttemptFits, LiveWorker
<1>6. b.kind = "provision" /\ b.code = "zero" => b.computer \in seen.proved
  BY <1>2, <1>5 DEF AttemptFits, SameCourse
<1>7. desk.state = "running" => (l = child => LiveWorker(b))
  BY <1>1, <1>5 DEF DesktopInv, RunningKnown
<1>8. desk.failure => desk.state = "failed"
  BY DEF DesktopInv, FailureKnown
<1> QED
  BY <1>1, <1>2, <1>4, <1>5, <1>6, <1>7, <1>8, CourseKept

\* An ordinary worker is over at its exit; of the others the exit is noted.
LEMMA ExitSeenKept ==
  ASSUME DesktopInv, NEW l \in DOMAIN launch, ExitSeen(l)
  PROVE  DesktopInv'
<1>1. PICK a0 : a0 = launch[l]
  OBVIOUS
<1>2. /\ a0 \in DeskAttempts /\ AttemptFits(a0, seen.proved, seen.wanted, desk.failure)
      /\ desk \in Desks /\ seen \in DeskSeen /\ ~a0.up /\ ~a0.ended /\ l = child /\ ~desk.failure
      /\ DOMAIN launch \subseteq Nat \ {0}
  BY <1>1, DeskFacts DEF ExitSeen
<1>3. PICK a : a = [a0 EXCEPT !.exited = TRUE]
  OBVIOUS
<1>4. /\ a \in DeskAttempts /\ SameCourse(a, a0) /\ a.code = a0.code /\ a.up = a0.up
      /\ a.left = a0.left /\ a.restart = a0.restart /\ a.error = a0.error
      /\ LiveWorker(a0) /\ ~a0.managed => LiveWorker(a)
  BY <1>2, <1>3 DEF DeskAttempts, SameCourse, AttemptFits, LiveWorker
<1>5. UNCHANGED <<deskOp, enrolled, profile, seen>>
  BY DEF ExitSeen
<1>6. CASE a.kind = "worker" /\ ~a.managed /\ ~a.error
  BY <1>1, <1>3, <1>6, <1>2, <1>4, <1>5, EndedKept DEF ExitSeen, SameCourse
<1>7. CASE ~(a.kind = "worker" /\ ~a.managed /\ ~a.error)
  <2>1. /\ launch' = [launch EXCEPT ![l] = a] /\ UNCHANGED child
        /\ desk' = IF a.managed
                   THEN [desk EXCEPT !.state = IF a.stopReq THEN "stopping" ELSE "failed"]
                   ELSE desk
    BY <1>1, <1>3, <1>7 DEF ExitSeen
  <2>2. /\ desk' \in Desks /\ desk'.failure = desk.failure /\ desk'.poll = desk.poll
        /\ desk'.stopRequested = desk.stopRequested
        /\ desk'.state = "running" => desk.state = "running" /\ ~a.managed
    <3>1. CASE a.managed
      <4>1. PICK s : s = IF a.stopReq THEN "stopping" ELSE "failed"
        OBVIOUS
      <4>2. desk' = [desk EXCEPT !.state = s] /\ s \in DeskStates /\ s # "running"
        BY <2>1, <3>1, <4>1 DEF DeskStates
      <4> QED
        BY <1>2, <4>2, DeskStateSet
    <3>2. CASE ~a.managed
      BY <1>2, <2>1, <3>2
    <3> QED
      BY <3>1, <3>2
  <2>3. desk'.state = "running" => LiveWorker(a)
    BY <1>1, <1>2, <1>4, <2>2 DEF DesktopInv, RunningKnown, SameCourse
  <2>4. a.kind = "provision" /\ a.code = "zero" => a.computer \in seen.proved
    BY <1>2, <1>4 DEF AttemptFits, SameCourse
  <2> QED
    BY <1>1, <1>2, <1>4, <1>5, <2>1, <2>2, <2>3, <2>4, CourseKept
<1> QED
  BY <1>6, <1>7

LEMMA CloseSeenKept ==
  ASSUME DesktopInv, NEW l \in DOMAIN launch, CloseSeen(l)
  PROVE  DesktopInv'
<1>1. PICK a0 : a0 = launch[l]
  OBVIOUS
<1>2. a0 \in DeskAttempts /\ ~a0.up
  BY <1>1, DeskFacts DEF CloseSeen
<1>3. PICK a : a = [a0 EXCEPT !.closed = TRUE]
  OBVIOUS
<1>4. /\ a \in DeskAttempts /\ a.kind = a0.kind /\ a.managed = a0.managed
      /\ a.computer = a0.computer /\ a.up = a0.up /\ a.code = a0.code /\ a.left = a0.left
      /\ a.current = a0.current /\ a.stopReq = a0.stopReq /\ a.restart = a0.restart
  BY <1>2, <1>3 DEF DeskAttempts
<1>5. Ended(l, a) /\ UNCHANGED <<deskOp, enrolled, profile, seen>>
  BY <1>1, <1>3 DEF CloseSeen
<1> QED
  BY <1>1, <1>2, <1>4, <1>5, EndedKept

-------------------------------------------------------------------------------
(* DesktopWorker: launches *)

LEMMA DomainLength ==
  ASSUME NEW m \in Nat, NEW n \in Nat, 1 .. m = 1 .. n
  PROVE  m = n
<1>1. ~(m < n)
  <2> SUFFICES ASSUME m < n PROVE FALSE
    OBVIOUS
  <2>1. n \in 1 .. n /\ n \notin 1 .. m
    OBVIOUS
  <2> QED
    BY <2>1
<1>2. ~(n < m)
  <2> SUFFICES ASSUME n < m PROVE FALSE
    OBVIOUS
  <2>1. m \in 1 .. m /\ m \notin 1 .. n
    OBVIOUS
  <2> QED
    BY <2>1
<1> QED
  BY <1>1, <1>2

LEMMA SupersededQuieter ==
  ASSUME DesktopInv
  PROVE  /\ Quieter(Superseded(launch))
         /\ \A k \in DOMAIN launch : /\ ~Superseded(launch)[k].current
                                     /\ Superseded(launch)[k].stopReq = launch[k].stopReq
<1> DEFINE ls == Superseded(launch)
<1>1. DOMAIN launch = 1 .. Len(launch) /\ Len(launch) \in Nat
  BY LenProperties DEF DesktopInv, DesktopTypeOK
<1>2. ls = [k \in 1 .. Len(launch) |-> [launch[k] EXCEPT !.current = FALSE]]
  BY <1>1 DEF Superseded
<1>3. ASSUME NEW k \in DOMAIN launch
      PROVE  /\ ls[k] \in DeskAttempts /\ Forgets(ls[k], launch[k]) /\ ~ls[k].current
             /\ ls[k].stopReq = launch[k].stopReq
  <2>1. PICK a \in DeskAttempts : a = launch[k]
    BY DeskFacts
  <2>2. ls[k] = [a EXCEPT !.current = FALSE]
    BY <1>1, <1>2, <2>1
  <2> QED
    BY <2>1, <2>2, ZenonT(40) DEF DeskAttempts, Forgets
<1>4. ls \in [1 .. Len(launch) -> DeskAttempts]
  <2> HIDE DEF ls
  <2> QED
    BY <1>1, <1>2, <1>3
<1>5. ls \in Seq(DeskAttempts)
  BY <1>1, <1>4, SeqDef
<1>6. Len(ls) = Len(launch)
  <2> HIDE DEF ls
  <2>1. DOMAIN ls = 1 .. Len(ls) /\ Len(ls) \in Nat
    BY <1>5, LenProperties
  <2>2. DOMAIN ls = 1 .. Len(launch)
    BY <1>2
  <2> QED
    BY <1>1, <2>1, <2>2, DomainLength
<1> QED
  BY <1>3, <1>5, <1>6 DEF Quieter

LEMMA MayLaunchFacts ==
  ASSUME DesktopInv, NEW d, DeskGoesOn(d), MayLaunch(d)
  PROVE  /\ child = 0 /\ ~desk.failure
         /\ profile[enrolled] \in {"none", "ready"}
BY DEF MayLaunch, DeskGoesOn

\* The new worker is for the selected computer and of its kind.
LEMMA LaunchedKept ==
  ASSUME DesktopInv, NEW ls, Quieter(ls), NEW d, DeskGoesOn(d), Launched(ls, d),
         deskOp' = NoOp, UNCHANGED <<enrolled, profile>>, seen' \in DeskSeen,
         seen'.proved = seen.proved, seen'.claims = seen.claims, seen'.wanted
  PROVE  DesktopInv'
<1>1. PICK managed \in BOOLEAN : managed <=> profile[enrolled] = "ready"
  OBVIOUS
<1>2. /\ launch' = Append(ls, Attempt("worker", managed)) /\ child' = Len(ls) + 1
      /\ desk' = [d EXCEPT !.stopRequested = FALSE, !.state = "starting"]
  BY <1>1 DEF Launched
<1>3. child = 0 /\ ~desk.failure /\ profile[enrolled] \in {"none", "ready"}
  BY MayLaunchFacts DEF Launched
<1>4. PICK a : a = Attempt("worker", managed)
  OBVIOUS
<1>5. Fresh(a) /\ a.kind = "worker" /\ a.managed = managed
  BY <1>4, AttemptIsFresh DEF DesktopInv
<1>6. DeskGoesOn(desk') /\ desk'.state # "running"
  <2>1. PICK e : e = [d EXCEPT !.stopRequested = FALSE]
    OBVIOUS
  <2>2. desk' = [e EXCEPT !.state = "starting"]
    BY <1>2, <2>1
  <2> QED
    BY <2>1, <2>2 DEF DeskGoesOn, Desks, DeskStates
<1>7. ls \in Seq(DeskAttempts)
  BY DEF Quieter
<1>8. profile[enrolled] = IF a.managed THEN "ready" ELSE "none"
  BY <1>1, <1>3, <1>5
<1> QED
  BY <1>2, <1>3, <1>4, <1>5, <1>6, <1>7, <1>8, SpawnKept

\* A launch that comes to nothing.
LEMMA LaunchFailsKept ==
  ASSUME DesktopInv, NEW ls, Quieter(ls), NEW d, DeskGoesOn(d), LaunchFails(ls, d),
         d.state # "running", desk.failure => d.state = "failed", child = 0,
         deskOp' = NoOp, UNCHANGED <<enrolled, profile>>, seen' \in DeskSeen,
         seen'.proved = seen.proved, seen'.claims = seen.claims,
         \/ seen'.wanted = seen.wanted
         \/ \A k \in DOMAIN launch : ~ls[k].current
  PROVE  DesktopInv'
<1>1. PICK s \in {d.state, "failed"} : desk' = [d EXCEPT !.stopRequested = FALSE, !.state = s]
  BY DEF LaunchFails
<1>2. DeskGoesOn(desk') /\ desk'.state = s
  <2>1. PICK e : e = [d EXCEPT !.stopRequested = FALSE]
    OBVIOUS
  <2>2. desk' = [e EXCEPT !.state = s]
    BY <1>1, <2>1
  <2> QED
    BY <2>1, <2>2 DEF DeskGoesOn, Desks, DeskStates
<1>3. launch' = ls /\ child' = child
  BY DEF LaunchFails
<1>4. desk'.state # "running" /\ (desk.failure => desk'.state = "failed")
  BY <1>1, <1>2
<1> QED
  BY <1>2, <1>3, <1>4, QuietKept

\* The parts of the user's operations that change the controller's record.
LEMMA StaleDesk ==
  ASSUME DesktopInv
  PROVE  /\ DeskGoesOn(Stale(desk)) /\ Stale(desk).state = desk.state
         /\ Stale(desk).stopRequested = desk.stopRequested
<1>1. PICK p : p = IF desk.poll.on = 0 THEN desk.poll ELSE [desk.poll EXCEPT !.current = FALSE]
  OBVIOUS
<1>2. desk \in Desks
  BY DEF DesktopInv, DesktopTypeOK
<1>3. Stale(desk) = [desk EXCEPT !.poll = p]
  BY <1>1 DEF Stale
<1>4. desk.poll \in Polls
  BY <1>2 DEF Desks
<1>5. p \in Polls /\ p.on = desk.poll.on /\ (p # NoPoll => desk.poll # NoPoll)
  <2>1. CASE desk.poll = NoPoll
    BY <1>1, <2>1 DEF NoPoll, Polls
  <2>2. CASE desk.poll \in [on : Nat \ {0}, current : BOOLEAN]
    <3>1. desk.poll.on \in Nat \ {0}
      BY <2>2
    <3>2. p = [desk.poll EXCEPT !.current = FALSE]
      BY <1>1, <3>1
    <3>3. p \in [on : Nat \ {0}, current : BOOLEAN] /\ p.on = desk.poll.on
      BY <2>2, <3>2
    <3>4. NoPoll.on = 0
      BY DEF NoPoll
    <3> QED
      BY <3>1, <3>3, <3>4 DEF Polls
  <2> QED
    BY <1>4, <2>1, <2>2 DEF Polls
<1> QED
  BY <1>2, <1>3, <1>5 DEF DeskGoesOn, Desks

LEMMA FreshRestarts ==
  ASSUME NEW d, DeskGoesOn(d), NEW e, e = [d EXCEPT !.restarts = 0]
  PROVE  DeskGoesOn(e) /\ e.state = d.state
BY DEF DeskGoesOn, Desks

LEMMA StartDaemonKept ==
  ASSUME DesktopInv, StartDaemon
  PROVE  DesktopInv'
<1>1. PICK ls : ls = Superseded(launch)
  OBVIOUS
<1>2. Quieter(ls)
  BY <1>1, SupersededQuieter
<1>3. PICK d : d = [Stale(desk) EXCEPT !.restarts = 0]
  OBVIOUS
<1>4. DeskGoesOn(d) /\ d.state = desk.state
  BY <1>3, StaleDesk, FreshRestarts
<1>5. deskOp' = NoOp /\ child = 0 /\ UNCHANGED <<enrolled, profile>> /\ seen \in DeskSeen
  BY DeskFacts DEF StartDaemon, Idle
<1>6. \/ Launched(ls, d) /\ seen' = [seen EXCEPT !.wanted = TRUE]
      \/ LaunchFails(ls, d) /\ UNCHANGED seen
  BY <1>1, <1>3 DEF StartDaemon, UserLaunch
<1>7. CASE Launched(ls, d) /\ seen' = [seen EXCEPT !.wanted = TRUE]
  BY <1>5, <1>7, <1>2, <1>4, LaunchedKept DEF DeskSeen
<1>8. CASE LaunchFails(ls, d) /\ UNCHANGED seen
  BY <1>4, <1>5, <1>2, <1>8, LaunchFailsKept DEF DesktopInv, RunningKnown, FailureKnown
<1> QED
  BY <1>6, <1>7, <1>8

LEMMA AutoRestartKept ==
  ASSUME DesktopInv, NEW l \in DOMAIN launch, AutoRestart(l)
  PROVE  DesktopInv'
<1>1. PICK ls : ls = [launch EXCEPT ![l].restart = "off"]
  OBVIOUS
<1>2. PICK a : a = launch[l]
  OBVIOUS
<1>3. a \in DeskAttempts /\ AttemptFits(a, seen.proved, seen.wanted, desk.failure)
      /\ seen \in DeskSeen /\ a.restart = "queued" /\ desk \in Desks
  BY <1>2, DeskFacts DEF AutoRestart
<1>4. deskOp' = NoOp /\ UNCHANGED <<enrolled, profile, seen>>
  BY DEF AutoRestart, Idle
<1>5. CASE ~MayRestart(l) \/ child # 0
  BY <1>5, <1>4, RestartMoved DEF AutoRestart
<1>6. CASE MayRestart(l) /\ child = 0
  <2>1. Quieter(ls)
    <3>1. PICK b : b = [a EXCEPT !.restart = "off"]
      OBVIOUS
    <3>2. b \in DeskAttempts /\ Forgets(b, a)
      BY <1>3, <3>1 DEF DeskAttempts, Forgets
    <3>3. ls = [launch EXCEPT ![l] = b]
      BY <1>1, <1>2, <3>1
    <3>4. DOMAIN launch = 1 .. Len(launch) /\ launch \in Seq(DeskAttempts)
      BY LenProperties DEF DesktopInv, DesktopTypeOK
    <3>5. /\ ls \in Seq(DeskAttempts) /\ Len(ls) = Len(launch)
          /\ \A k \in DOMAIN launch : ls[k] = IF k = l THEN b ELSE launch[k]
      BY <3>2, <3>3, <3>4, ExceptSeq
    <3>6. \A k \in DOMAIN launch : Forgets(launch[k], launch[k])
      BY DEF Forgets
    <3> QED
      BY <1>2, <3>2, <3>5, <3>6 DEF Quieter
  <2>2. DeskGoesOn(desk)
    BY <1>3 DEF DeskGoesOn
  <2>3. \/ Launched(ls, desk)
        \/ /\ launch' = ls /\ UNCHANGED child
           /\ desk' = [desk EXCEPT !.stopRequested = FALSE, !.state = "failed"]
    BY <1>1, <1>6 DEF AutoRestart
  <2>4. CASE Launched(ls, desk)
    BY <1>2, <1>3, <1>6, <1>4, <2>1, <2>2, <2>4, LaunchedKept DEF AttemptFits, MayRestart
  <2>5. CASE /\ launch' = ls /\ UNCHANGED child
             /\ desk' = [desk EXCEPT !.stopRequested = FALSE, !.state = "failed"]
    <3>1. DeskGoesOn(desk') /\ desk'.state = "failed"
      <4>1. PICK e : e = [desk EXCEPT !.stopRequested = FALSE]
        OBVIOUS
      <4>2. desk' = [e EXCEPT !.state = "failed"]
        BY <2>5, <4>1
      <4> QED
        BY <1>3, <4>1, <4>2 DEF DeskGoesOn, Desks, DeskStates
    <3> QED
      BY <1>3, <1>4, <1>6, <2>1, <2>5, <3>1, QuietKept
  <2> QED
    BY <2>3, <2>4, <2>5
<1> QED
  BY <1>5, <1>6

-------------------------------------------------------------------------------
(* DesktopWorker: stopping *)

\* What an operation does once no process is left.  Nothing may be restarted.
LEMMA StoppedKept ==
  ASSUME DesktopInv, NEW op \in Stopping, NEW ls, Quieter(ls), NEW d, DeskGoesOn(d),
         Stopped(op, ls, d), child = 0, desk.failure => d.state = "failed",
         d.state # "running",
         \A k \in DOMAIN launch : ~ls[k].current,
         deskOp' = NoOp, UNCHANGED profile
  PROVE  DesktopInv'
<1>1. seen \in DeskSeen /\ enrolled \in Computers \cup {"none"}
  BY DeskFacts
<1>2. PICK quiet : quiet = [seen EXCEPT !.wanted = FALSE]
  OBVIOUS
<1>3. quiet \in DeskSeen /\ quiet.proved = seen.proved /\ quiet.claims = seen.claims
  BY <1>1, <1>2 DEF DeskSeen
<1>4. CASE op = "restart"
  <2>1. PICK e : e = [d EXCEPT !.restarts = 0]
    OBVIOUS
  <2>2. DeskGoesOn(e) /\ e.state = d.state
    BY <2>1, FreshRestarts
  <2>3. /\ \/ Launched(ls, e) /\ seen' = [seen EXCEPT !.wanted = TRUE]
           \/ LaunchFails(ls, e) /\ seen' = quiet
        /\ UNCHANGED enrolled
    BY <1>2, <1>4, <2>1 DEF Stopped
  <2>4. CASE Launched(ls, e) /\ seen' = [seen EXCEPT !.wanted = TRUE]
    BY <1>1, <2>4, <2>2, <2>3, LaunchedKept DEF DeskSeen
  <2>5. CASE LaunchFails(ls, e) /\ seen' = quiet
    BY <1>3, <2>2, <2>3, <2>5, LaunchFailsKept
  <2> QED
    BY <2>3, <2>4, <2>5
<1>5. CASE op # "restart"
  BY <1>2, <1>5, <1>1, <1>3, QuietKept DEF Stopped, Stopping
<1> QED
  BY <1>4, <1>5

\* No clock of an earlier attempt survives stopWorker.
LEMMA StopWorkerForgets ==
  ASSUME DesktopInv, NEW ls,
         ls = IF desk.timer = 0 THEN Superseded(launch)
              ELSE [Superseded(launch) EXCEPT ![desk.timer].restart =
                      IF @ = "armed" THEN "off" ELSE @]
  PROVE  Quieter(ls) /\ \A k \in DOMAIN launch : ~ls[k].current
<1>1. PICK s : s = Superseded(launch)
  OBVIOUS
<1>2. Quieter(s) /\ \A k \in DOMAIN launch : ~s[k].current
  BY <1>1, SupersededQuieter
<1>3. s \in Seq(DeskAttempts) /\ Len(s) = Len(launch)
      /\ \A k \in DOMAIN launch : Forgets(s[k], launch[k])
  BY <1>2 DEF Quieter
<1>4. DOMAIN launch = 1 .. Len(launch) /\ DOMAIN s = 1 .. Len(s)
  BY <1>3, LenProperties DEF DesktopInv, DesktopTypeOK
<1>5. CASE desk.timer = 0 \/ desk.timer \notin DOMAIN launch
  <2>1. s \in [1 .. Len(s) -> DeskAttempts]
    BY <1>3, LenProperties
  <2>2. ls = s
    BY <1>1, <1>3, <1>4, <1>5, <2>1
  <2> QED
    BY <1>2, <2>2
<1>6. CASE desk.timer # 0 /\ desk.timer \in DOMAIN launch
  <2>1. PICK t \in DOMAIN launch : t = desk.timer
    BY <1>6
  <2>2. PICK a \in DeskAttempts : a = s[t]
    BY <1>3, <1>4, <2>1, ElementOfSeq
  <2>3. PICK r : r = IF a.restart = "armed" THEN "off" ELSE a.restart
    OBVIOUS
  <2>4. PICK b : b = [a EXCEPT !.restart = r]
    OBVIOUS
  <2>5. b \in DeskAttempts /\ Forgets(b, a) /\ b.current = a.current
    BY <2>3, <2>4 DEF DeskAttempts, Forgets
  <2>6. ls = [s EXCEPT ![t] = b]
    <3>1. ls = [s EXCEPT ![t].restart = IF s[t].restart = "armed" THEN "off" ELSE s[t].restart]
      BY <1>1, <1>6, <2>1, Zenon
    <3>2. s[t].restart = a.restart /\ [s[t] EXCEPT !.restart = r] = b
      BY <2>2, <2>4
    <3>3. ls = [s EXCEPT ![t] = [s[t] EXCEPT !.restart = r]]
      BY <2>3, <3>1, <3>2, Zenon
    <3> QED
      BY ONLY <3>2, <3>3
  <2>7. /\ ls \in Seq(DeskAttempts) /\ Len(ls) = Len(s)
        /\ \A k \in DOMAIN launch : ls[k] = IF k = t THEN b ELSE s[k]
    BY ONLY <1>3, <1>4, t \in DOMAIN launch, <2>5, <2>6, ExceptSeq
  <2>8. Forgets(b, launch[t])
    BY <1>3, <2>2, <2>5 DEF Forgets
  <2> QED
    BY <1>2, <1>3, <2>2, <2>5, <2>7, <2>8 DEF Quieter
<1> QED
  BY <1>5, <1>6

LEMMA StopWorkerKept ==
  ASSUME DesktopInv, NEW op \in Stopping, StopWorker(op)
  PROVE  DesktopInv'
<1>1. PICK ls : ls = IF desk.timer = 0 THEN Superseded(launch)
                     ELSE [Superseded(launch) EXCEPT ![desk.timer].restart =
                             IF @ = "armed" THEN "off" ELSE @]
  OBVIOUS
<1>2. Quieter(ls) /\ \A k \in DOMAIN launch : ~ls[k].current
  BY <1>1, StopWorkerForgets
<1>3. PICK d : d = [Stale(desk) EXCEPT !.stopRequested = TRUE, !.timer = 0]
  OBVIOUS
<1>4. DeskGoesOn(d) /\ d.state = desk.state /\ d.stopRequested
  <2>1. PICK e : e = [Stale(desk) EXCEPT !.stopRequested = TRUE]
    OBVIOUS
  <2>2. d = [e EXCEPT !.timer = 0]
    BY <1>3, <2>1
  <2>3. PICK st : st = Stale(desk)
    OBVIOUS
  <2>4. DeskGoesOn(st) /\ st.state = desk.state
    BY <2>3, StaleDesk
  <2>5. DeskGoesOn(e) /\ e.state = desk.state /\ e.stopRequested
    BY <2>1, <2>3, <2>4 DEF DeskGoesOn, Desks
  <2> QED
    BY <2>2, <2>5 DEF DeskGoesOn, Desks
<1>5. UNCHANGED profile /\ seen \in DeskSeen /\ DOMAIN launch \subseteq Nat \ {0}
  BY DeskFacts DEF StopWorker
<1>6. \/ /\ child = 0 /\ desk.failure /\ deskOp' = NoOp /\ launch' = ls /\ desk' = d
         /\ UNCHANGED <<child, enrolled, seen>>
      \/ /\ child = 0 /\ ~desk.failure /\ deskOp' = NoOp
         /\ Stopped(op, ls, [d EXCEPT !.state = "stopped"])
      \/ /\ child # 0 /\ deskOp' = [name |-> op, on |-> child]
         /\ desk' = [d EXCEPT !.state = "stopping"]
         /\ \E asked \in BOOLEAN :
              launch' = [ls EXCEPT ![child].stopReq = TRUE, ![child].asked = @ \/ asked,
                                   ![child].error = @ \/ ~asked]
         /\ UNCHANGED <<child, enrolled, seen>>
  BY <1>1, <1>3 DEF StopWorker, Idle
<1>7. CASE /\ child = 0 /\ desk.failure /\ deskOp' = NoOp /\ launch' = ls /\ desk' = d
           /\ UNCHANGED <<child, enrolled, seen>>
  BY <1>4, <1>7, <1>2, <1>5, QuietKept DEF DesktopInv, FailureKnown
<1>8. CASE /\ child = 0 /\ ~desk.failure /\ deskOp' = NoOp
           /\ Stopped(op, ls, [d EXCEPT !.state = "stopped"])
  <2>1. PICK e : e = [d EXCEPT !.state = "stopped"]
    OBVIOUS
  <2>2. DeskGoesOn(e) /\ e.state = "stopped"
    BY <1>4, <2>1 DEF DeskGoesOn, Desks, DeskStates
  <2>3. Stopped(op, ls, e)
    BY <1>8, <2>1
  <2> QED
    BY <1>2, <1>5, <1>8, <2>2, <2>3, StoppedKept
<1>9. ASSUME child # 0, deskOp' = [name |-> op, on |-> child],
             desk' = [d EXCEPT !.state = "stopping"], NEW asked \in BOOLEAN,
             launch' = [ls EXCEPT ![child].stopReq = TRUE, ![child].asked = @ \/ asked,
                                  ![child].error = @ \/ ~asked],
             UNCHANGED <<child, enrolled, seen>>
      PROVE  DesktopInv'
  <2>1. child \in DOMAIN launch /\ ~desk.failure /\ ~launch[child].ended
    BY <1>9, DeskFacts
  <2>2. ls \in Seq(DeskAttempts) /\ Len(ls) = Len(launch)
        /\ \A k \in DOMAIN launch : Forgets(ls[k], launch[k])
    BY <1>2 DEF Quieter
  <2>3. DOMAIN launch = 1 .. Len(launch)
    BY LenProperties DEF DesktopInv, DesktopTypeOK
  <2>4. PICK a \in DeskAttempts : a = ls[child]
    BY <2>1, <2>2, <2>3, ElementOfSeq
  <2>5. PICK b1 : b1 = [a EXCEPT !.stopReq = TRUE]
    OBVIOUS
  <2>6. PICK x \in BOOLEAN : x = (a.asked \/ asked)
    OBVIOUS
  <2>7. PICK y \in BOOLEAN : y = (a.error \/ ~asked)
    OBVIOUS
  <2>8. PICK b2 : b2 = [b1 EXCEPT !.asked = x]
    OBVIOUS
  <2>9. PICK b : b = [b2 EXCEPT !.error = y]
    OBVIOUS
  <2>10. b1 \in DeskAttempts /\ b1.asked = a.asked /\ b1.error = a.error
         /\ b1.current = a.current /\ (~a.ended => Forgets(b1, a))
    BY <2>5 DEF DeskAttempts, Forgets
  <2>11. b2 \in DeskAttempts /\ b2.error = a.error /\ b2.current = a.current
         /\ (~a.ended => Forgets(b2, a))
    BY <2>8, <2>10 DEF DeskAttempts, Forgets
  <2>12. b \in DeskAttempts /\ b.current = a.current /\ (~a.ended => Forgets(b, a))
    BY <2>9, <2>11 DEF DeskAttempts, Forgets
  <2>13. launch' = [ls EXCEPT ![child] = b]
    BY <2>1, <2>2, <2>3, LenProperties, <1>9, <2>4, <2>5, <2>6, <2>7, <2>8, <2>9, <2>10, <2>11
  <2>14. /\ launch' \in Seq(DeskAttempts) /\ Len(launch') = Len(ls)
         /\ \A k \in DOMAIN launch : launch'[k] = IF k = child THEN b ELSE ls[k]
    BY <2>1, <2>2, <2>3, <2>12, <2>13, ExceptSeq
  <2>15. Forgets(b, launch[child])
    BY <2>1, <2>2, <2>4, <2>12 DEF Forgets
  <2>16. Quieter(launch') /\ \A k \in DOMAIN launch : ~launch'[k].current
    BY <1>2, <2>1, <2>2, <2>4, <2>12, <2>14, <2>15 DEF Quieter
  <2>17. DeskGoesOn(desk') /\ desk'.state = "stopping" /\ desk'.stopRequested
    BY <1>4, <1>9 DEF DeskGoesOn, Desks, DeskStates
  <2>18. deskOp' \in DeskOps /\ deskOp'.name \in Stopping /\ deskOp'.on = child
    BY <1>5, <1>9, <2>1 DEF DeskOps
  <2> QED
    BY <1>5, <1>9, <2>1, <2>16, <2>17, <2>18, QuietKept
<1> QED
  BY <1>6, <1>7, <1>8, <1>9

LEMMA SameIsQuieter ==
  ASSUME DesktopInv
  PROVE  Quieter(launch) /\ DeskGoesOn(desk)
BY DEF Quieter, Forgets, DeskGoesOn, DesktopInv, DesktopTypeOK

\* An operation that gives up leaves all as it is.
LEMMA NothingHeard ==
  ASSUME DesktopInv, NEW l \in DOMAIN launch, deskOp' = NoOp,
         UNCHANGED <<launch, child, desk, enrolled, profile, seen>>
  PROVE  DesktopInv'
<1>1. PICK a : a = launch[l]
  OBVIOUS
<1>2. /\ a \in DeskAttempts /\ AttemptFits(a, seen.proved, seen.wanted, desk.failure)
      /\ desk \in Desks /\ seen \in DeskSeen
  BY <1>1, DeskFacts
<1>3. launch' = [launch EXCEPT ![l] = a]
  BY LenProperties, <1>1 DEF DesktopInv, DesktopTypeOK
<1>4. SameCourse(a, a)
  BY <1>2 DEF SameCourse, AttemptFits
<1>5. desk.state = "running" => (l = child => LiveWorker(a))
  BY <1>1 DEF DesktopInv, RunningKnown
<1>6. desk.failure => desk.state = "failed"
  BY DEF DesktopInv, FailureKnown
<1>7. a.kind = "provision" /\ a.code = "zero" => a.computer \in seen.proved
  BY <1>2 DEF AttemptFits
<1> QED
  BY <1>1, <1>2, <1>3, <1>4, <1>5, <1>6, <1>7, CourseKept

LEMMA StopResolvesKept ==
  ASSUME DesktopInv, StopResolves
  PROVE  DesktopInv'
<1>1. PICK a : a = launch[deskOp.on]
  OBVIOUS
<1>2. /\ deskOp.on \in DOMAIN launch /\ child \in {0, deskOp.on}
      /\ \A l \in DOMAIN launch : ~launch[l].current
      /\ DOMAIN launch \subseteq Nat \ {0} /\ seen \in DeskSeen
  BY DeskFacts DEF DesktopInv, OperationFits, StopResolves
<1>3. deskOp' = NoOp /\ UNCHANGED profile
  BY DEF StopResolves
<1>4. \/ a.ended /\ Stopped(deskOp.name, launch, desk)
      \/ UNCHANGED <<launch, child, desk, enrolled, seen>>
  BY <1>1 DEF StopResolves
<1>5. CASE a.ended /\ Stopped(deskOp.name, launch, desk)
  <2>1. child = 0
    BY <1>1, <1>2, <1>5, DeskFacts
  <2>2. desk.state # "running" /\ (desk.failure => desk.state = "failed")
    BY <2>1 DEF DesktopInv, RunningKnown, FailureKnown
  <2> QED
    BY <1>2, <1>3, <1>5, <2>1, <2>2, SameIsQuieter, StoppedKept DEF StopResolves
<1>6. CASE UNCHANGED <<launch, child, desk, enrolled, seen>>
  BY <1>2, <1>3, <1>6, NothingHeard
<1> QED
  BY <1>4, <1>5, <1>6

-------------------------------------------------------------------------------
(* DesktopWorker: the preparation of a profile, status, crashes *)

LEMMA ClaimKept ==
  ASSUME DesktopInv, Claim
  PROVE  DesktopInv'
<1>1. /\ child = 0 /\ ~desk.failure /\ enrolled \in Computers /\ profile[enrolled] = "none"
      /\ deskOp' = [name |-> "claiming", on |-> 0]
      /\ profile' = [profile EXCEPT ![enrolled] = "claimed"]
      /\ seen' = [seen EXCEPT !.claims[enrolled] = @ + 1]
      /\ UNCHANGED <<launch, child, desk, enrolled>>
  BY DeskFacts DEF Claim, Idle
<1>2. /\ desk \in Desks /\ seen \in DeskSeen /\ DOMAIN launch \subseteq Nat \ {0}
      /\ \A l \in DOMAIN launch : ~launch[l].up
  BY <1>1, DeskFacts
<1>3. seen' \in DeskSeen /\ seen'.wanted = seen.wanted /\ seen'.proved = seen.proved
      /\ seen'.claims = [seen.claims EXCEPT ![enrolled] = seen.claims[enrolled] + 1]
  <2>1. PICK cl : cl = [seen.claims EXCEPT ![enrolled] = seen.claims[enrolled] + 1]
    OBVIOUS
  <2>2. cl \in [Computers -> Nat]
    BY <1>1, <1>2, <2>1 DEF DeskSeen
  <2>3. seen' = [seen EXCEPT !.claims = cl]
    BY <1>1, <2>1
  <2> QED
    BY <1>2, <2>1, <2>2, <2>3 DEF DeskSeen
<1>4. DesktopTypeOK'
  BY <1>1, <1>3 DEF DeskOps, DesktopInv, DesktopTypeOK
<1>5. ChildNotEnded' /\ FailureKnown' /\ StopKnown' /\ PollKnown' /\ RunningKnown'
  BY <1>1 DEF DesktopInv, ChildNotEnded, FailureKnown, StopKnown, PollKnown, RunningKnown
<1>6. AttemptsFit'
  BY <1>1, <1>3 DEF DesktopInv, AttemptsFit, AttemptFits
<1>7. OperationFits'
  BY <1>1 DEF OperationFits, Stopping
<1>8. ClaimsCounted'
  <2> SUFFICES ASSUME NEW c \in Computers
               PROVE  /\ seen'.claims[c] <= 1
                      /\ profile'[c] = "none" => seen'.claims[c] = 0
                      /\ profile'[c] \in {"completing", "ready"} => c \in seen'.proved
    BY DEF ClaimsCounted
  <2>1. /\ seen.claims[c] <= 1 /\ (profile[c] = "none" => seen.claims[c] = 0)
        /\ profile[c] \in {"completing", "ready"} => c \in seen.proved
    BY DEF DesktopInv, ClaimsCounted
  <2>2. profile \in [Computers -> {"none", "claimed", "incomplete", "completing", "ready"}]
        /\ seen.claims \in [Computers -> Nat]
    BY <1>2 DEF DesktopInv, DesktopTypeOK, DeskSeen
  <2> QED
    BY <1>1, <1>3, <2>1, <2>2
<1>9. WorkersFit'
  BY <1>1, <1>2 DEF WorkersFit
<1> QED
  BY <1>4, <1>5, <1>6, <1>7, <1>8, <1>9 DEF DesktopInv

\* A step of the preparation that writes the profile: no worker is there.
LEMMA ProfileWritten ==
  ASSUME DesktopInv, child = 0 \/ (child \in DOMAIN launch /\ launch[child].kind = "provision"),
         enrolled \in Computers, ~desk.failure,
         NEW p \in {"incomplete", "completing", "ready"},
         p \in {"completing", "ready"} => enrolled \in seen.proved,
         profile' \in {profile, [profile EXCEPT ![enrolled] = p]},
         UNCHANGED <<launch, child, enrolled, seen>>,
         desk' \in Desks, desk'.failure = desk.failure, desk'.poll = desk.poll,
         desk'.stopRequested = desk.stopRequested, desk'.state = "running" => desk' = desk,
         \/ deskOp' = NoOp
         \/ /\ child = 0 /\ deskOp' \in DeskOps /\ deskOp'.name = "completing"
            /\ profile'[enrolled] = "completing"
  PROVE  DesktopInv'
<1>1. DOMAIN launch \subseteq Nat \ {0}
      /\ \A l \in DOMAIN launch : launch[l].up => launch[l].kind = "provision"
  BY DeskFacts
<1>2. DesktopTypeOK'
  BY DEF NoOp, DeskOps, DesktopInv, DesktopTypeOK
<1>3. ChildNotEnded' /\ FailureKnown' /\ StopKnown' /\ PollKnown'
  BY DEF DesktopInv, ChildNotEnded, FailureKnown, StopKnown, PollKnown
<1>4. RunningKnown'
  BY DEF DesktopInv, RunningKnown
<1>5. AttemptsFit'
  BY DEF DesktopInv, AttemptsFit, AttemptFits
<1>6. OperationFits'
  BY DEF OperationFits, Stopping, NoOp
<1>7. ClaimsCounted'
  <2> SUFFICES ASSUME NEW c \in Computers
               PROVE  /\ seen.claims[c] <= 1
                      /\ profile'[c] = "none" => seen.claims[c] = 0
                      /\ profile'[c] \in {"completing", "ready"} => c \in seen.proved
    BY DEF ClaimsCounted
  <2>1. profile'[c] = profile[c] \/ (c = enrolled /\ profile'[c] = p)
    BY DEF DesktopInv, DesktopTypeOK
  <2> QED
    BY <2>1 DEF DesktopInv, ClaimsCounted
<1>8. WorkersFit'
  BY <1>1 DEF WorkersFit
<1> QED
  BY <1>2, <1>3, <1>4, <1>5, <1>6, <1>7, <1>8 DEF DesktopInv

LEMMA DeskLost ==
  ASSUME DesktopInv, enrolled \in Computers, NEW e, e = [desk EXCEPT !.lost = @ \cup {enrolled}]
  PROVE  e \in Desks /\ e.failure = desk.failure /\ e.poll = desk.poll
         /\ e.stopRequested = desk.stopRequested /\ e.state = desk.state
BY DeskFacts DEF Desks

LEMMA ClaimWrittenKept ==
  ASSUME DesktopInv, ClaimWritten
  PROVE  DesktopInv'
<1>1. child = 0 /\ enrolled \in Computers /\ ~desk.failure /\ desk \in Desks /\ seen \in DeskSeen
      /\ desk.state # "running"
  BY DeskFacts DEF ClaimWritten, DesktopInv, OperationFits, RunningKnown
<1>2. CASE WriteFails("incomplete") /\ desk' = [desk EXCEPT !.lost = @ \cup {enrolled}]
  BY <1>2, <1>1, DeskLost, ProfileWritten DEF WriteFails
<1>3. ASSUME profile' = [profile EXCEPT ![enrolled] = "incomplete"],
             launch' = Append(launch, Attempt("provision", FALSE)),
             child' = Len(launch) + 1,
             deskOp' = [name |-> "prepare", on |-> Len(launch) + 1],
             desk' = [desk EXCEPT !.state = "preparing"],
             UNCHANGED <<enrolled, seen>>
      PROVE  DesktopInv'
  <2>1. PICK no \in BOOLEAN : no = FALSE
    OBVIOUS
  <2>2. PICK a : a = Attempt("provision", no)
    OBVIOUS
  <2>3. Fresh(a) /\ a.kind = "provision" /\ launch' = Append(launch, a)
    BY <1>3, <2>1, <2>2, AttemptIsFresh DEF DesktopInv
  <2>4. DeskGoesOn(desk') /\ desk'.state # "running"
    BY <1>1, <1>3 DEF DeskGoesOn, Desks, DeskStates
  <2>5. launch \in Seq(DeskAttempts) /\ Len(launch) \in Nat
    BY LenProperties DEF DesktopInv, DesktopTypeOK
  <2>6. deskOp' \in DeskOps /\ deskOp'.name = "prepare" /\ deskOp'.on = Len(launch) + 1
    BY <1>3, <2>5 DEF DeskOps
  <2> QED
    BY <1>1, <1>3, <2>3, <2>4, <2>5, <2>6, SameIsQuieter, SpawnKept
<1> QED
  BY <1>2, <1>3 DEF ClaimWritten

LEMMA PrepareResolvesKept ==
  ASSUME DesktopInv, PrepareResolves
  PROVE  DesktopInv'
<1>1. PICK l : l = deskOp.on
  OBVIOUS
<1>2. PICK a : a = launch[l]
  OBVIOUS
<1>3. /\ l \in DOMAIN launch /\ child \in {0, l} /\ a.kind = "provision" /\ a.computer = enrolled
      /\ enrolled \in Computers /\ ~desk.failure
  BY <1>1, <1>2 DEF PrepareResolves, DesktopInv, OperationFits
<1>4. /\ a \in DeskAttempts /\ AttemptFits(a, seen.proved, seen.wanted, desk.failure)
      /\ desk \in Desks /\ seen \in DeskSeen /\ DOMAIN launch \subseteq Nat \ {0}
  BY <1>2, <1>3, DeskFacts
<1>5. UNCHANGED <<child, enrolled, seen>>
  BY DEF PrepareResolves
<1>6. CASE Provisioned(a)
  <2>1. /\ deskOp' = [name |-> "completing", on |-> l]
        /\ profile' = [profile EXCEPT ![enrolled] = "completing"]
        /\ UNCHANGED <<launch, desk>>
    BY <1>1, <1>2, <1>6 DEF PrepareResolves
  <2>2. a.ended /\ a.code = "zero"
    BY <1>6 DEF Provisioned, SuccessfulExit
  <2>3. child = 0
    BY <1>2, <1>3, <2>2, DeskFacts
  <2>4. enrolled \in seen.proved
    BY <1>3, <1>4, <2>2 DEF AttemptFits
  <2>5. deskOp' \in DeskOps /\ deskOp'.name = "completing"
    BY <1>3, <1>4, <2>1 DEF DeskOps
  <2>6. profile'[enrolled] = "completing"
    BY <1>3, <2>1 DEF DesktopInv, DesktopTypeOK
  <2> QED
    BY <1>3, <1>4, <1>5, <2>1, <2>3, <2>4, <2>5, <2>6, ProfileWritten
<1>7. CASE ~Provisioned(a)
  <2>1. /\ deskOp' = NoOp /\ launch' = [launch EXCEPT ![l].abandoned = TRUE]
        /\ desk' = [desk EXCEPT !.state = IF child # 0 THEN "stopping" ELSE "failed"]
        /\ UNCHANGED profile
    BY <1>1, <1>2, <1>7 DEF PrepareResolves
  <2>2. PICK b : b = [a EXCEPT !.abandoned = TRUE]
    OBVIOUS
  <2>3. launch' = [launch EXCEPT ![l] = b]
    BY <1>2, <2>1, <2>2
  <2>4. b \in DeskAttempts /\ SameCourse(b, a) /\ b.code = a.code
    BY <1>4, <2>2 DEF DeskAttempts, SameCourse, AttemptFits
  <2>5. /\ desk' \in Desks /\ desk'.failure = desk.failure /\ desk'.poll = desk.poll
        /\ desk'.stopRequested = desk.stopRequested /\ desk'.state # "running"
    <3>1. PICK s : s = IF child # 0 THEN "stopping" ELSE "failed"
      OBVIOUS
    <3>2. desk' = [desk EXCEPT !.state = s] /\ s \in DeskStates /\ s # "running"
      BY <2>1, <3>1 DEF DeskStates
    <3> QED
      BY <1>4, <3>2, DeskStateSet
  <2>6. b.kind = "provision" /\ b.code = "zero" => b.computer \in seen.proved
    BY <1>4, <2>4 DEF AttemptFits, SameCourse
  <2> QED
    BY <1>2, <1>3, <1>4, <1>5, <2>1, <2>3, <2>4, <2>5, <2>6, CourseKept
<1> QED
  BY <1>6, <1>7

LEMMA CompleteWrittenKept ==
  ASSUME DesktopInv, CompleteWritten
  PROVE  DesktopInv'
<1>1. /\ child = 0 /\ enrolled \in Computers /\ ~desk.failure /\ desk \in Desks
      /\ profile[enrolled] = "completing"
  BY DeskFacts DEF CompleteWritten, DesktopInv, OperationFits
<1>2. enrolled \in seen.proved
  BY <1>1 DEF DesktopInv, ClaimsCounted
<1>3. PICK s \in {"failed", "stopped"} :
        \/ desk' = [desk EXCEPT !.lost = @ \cup {enrolled}, !.state = s]
        \/ desk' = [desk EXCEPT !.state = s]
  BY DEF CompleteWritten
<1>4. /\ desk' \in Desks /\ desk'.failure = desk.failure /\ desk'.poll = desk.poll
      /\ desk'.stopRequested = desk.stopRequested /\ desk'.state # "running"
  <2>1. s \in DeskStates /\ s # "running"
    BY DEF DeskStates
  <2>2. PICK e : e = [desk EXCEPT !.lost = @ \cup {enrolled}]
    OBVIOUS
  <2>3. e \in Desks /\ e.failure = desk.failure /\ e.poll = desk.poll
        /\ e.stopRequested = desk.stopRequested
    BY <1>1, <2>2, DeskLost
  <2>4. desk' = [e EXCEPT !.state = s] \/ desk' = [desk EXCEPT !.state = s]
    BY <1>3, <2>2
  <2> QED
    BY <1>1, <2>1, <2>3, <2>4, DeskStateSet
<1>5. /\ profile' \in {profile, [profile EXCEPT ![enrolled] = "ready"]}
      /\ deskOp' = NoOp /\ UNCHANGED <<launch, child, enrolled, seen>>
  BY DEF CompleteWritten, WriteFails
<1> QED
  BY <1>1, <1>2, <1>4, <1>5, ProfileWritten

\* Of a status request nothing but the controller's record changes.
LEMMA StatusKept ==
  ASSUME DesktopInv, desk' \in Desks, desk'.failure = desk.failure,
         desk'.stopRequested = desk.stopRequested,
         desk'.poll # NoPoll => desk'.poll.on \in DOMAIN launch
                                 /\ launch[desk'.poll.on].kind = "worker",
         desk.failure => desk'.state = desk.state,
         desk'.state = "running" => child # 0 /\ LiveWorker(launch[child]),
         UNCHANGED <<launch, child, deskOp, enrolled, profile, seen>>
  PROVE  DesktopInv'
<1>1. DesktopTypeOK' /\ ChildNotEnded' /\ AttemptsFit' /\ WorkersFit' /\ ClaimsCounted'
  BY DEF DesktopInv, DesktopTypeOK, ChildNotEnded, AttemptsFit, AttemptFits, WorkersFit,
         ClaimsCounted
<1>2. FailureKnown' /\ StopKnown' /\ PollKnown' /\ RunningKnown'
  BY DEF DesktopInv, FailureKnown, StopKnown, PollKnown, RunningKnown
<1>3. OperationFits'
  BY DEF DesktopInv, OperationFits
<1> QED
  BY <1>1, <1>2, <1>3 DEF DesktopInv

LEMMA StatusAsksKept ==
  ASSUME DesktopInv, StatusAsks
  PROVE  DesktopInv'
<1>1. child # 0 /\ launch[child].kind = "worker"
      /\ UNCHANGED <<launch, child, deskOp, enrolled, profile, seen>>
  BY DEF StatusAsks
<1>2. child \in DOMAIN launch /\ desk \in Desks /\ DOMAIN launch \subseteq Nat \ {0}
  BY <1>1, DeskFacts
<1>3. PICK yes \in BOOLEAN : yes = TRUE
  OBVIOUS
<1>4. PICK p : p = [on |-> child, current |-> yes]
  OBVIOUS
<1>5. p \in Polls /\ p.on = child
  BY <1>1, <1>2, <1>4 DEF Polls
<1>6. desk' = [desk EXCEPT !.poll = p]
  BY <1>3, <1>4 DEF StatusAsks
<1>7. desk' \in Desks /\ desk'.failure = desk.failure /\ desk'.poll = p
      /\ desk'.stopRequested = desk.stopRequested /\ desk'.state = desk.state
  BY <1>2, <1>5, <1>6 DEF Desks
<1>8. desk'.state = "running" => child # 0 /\ LiveWorker(launch[child])
  BY <1>7 DEF DesktopInv, RunningKnown
<1> QED
  BY <1>1, <1>2, <1>5, <1>7, <1>8, StatusKept

LEMMA StatusAnswersKept ==
  ASSUME DesktopInv, StatusAnswers
  PROVE  DesktopInv'
<1>1. PICK p : p = desk.poll
  OBVIOUS
<1>2. PICK d : d = [desk EXCEPT !.poll = NoPoll]
  OBVIOUS
<1>3. desk \in Desks /\ desk.poll # NoPoll
      /\ UNCHANGED <<launch, child, deskOp, enrolled, profile, seen>>
  BY DeskFacts DEF StatusAnswers
<1>4. /\ d \in Desks /\ d.failure = desk.failure /\ d.poll = NoPoll
      /\ d.stopRequested = desk.stopRequested /\ d.state = desk.state
  BY <1>2, <1>3 DEF Desks, Polls
<1>5. p.on \in DOMAIN launch /\ launch[p.on].kind = "worker" /\ p.on # 0
  BY <1>1, <1>3, DeskFacts DEF DesktopInv, PollKnown
<1>6. \/ desk' = d
      \/ /\ StillCurrent(p)
         /\ \/ desk' = [d EXCEPT !.state = IF @ = "running" THEN "unhealthy" ELSE @]
            \/ /\ launch[p.on].managed => launch[p.on].ready
               /\ desk' = [d EXCEPT !.state = "running", !.restarts = 0]
  BY <1>1, <1>2 DEF StatusAnswers
<1>7. CASE desk' = d
  BY <1>4, <1>7, <1>3, StatusKept DEF DesktopInv, RunningKnown
<1>8. CASE StillCurrent(p)
           /\ desk' = [d EXCEPT !.state = IF @ = "running" THEN "unhealthy" ELSE @]
  <2>1. child # 0 /\ ~desk.failure
    BY <1>5, <1>8, DeskFacts DEF StillCurrent
  <2>2. PICK s : s = IF d.state = "running" THEN "unhealthy" ELSE d.state
    OBVIOUS
  <2>3. s \in DeskStates /\ s # "running"
    BY <1>4, <2>2 DEF Desks, DeskStates
  <2>4. desk' = [d EXCEPT !.state = s]
    BY <1>8, <2>2
  <2>5. /\ desk' \in Desks /\ desk'.state = s /\ desk'.failure = desk.failure
        /\ desk'.poll = NoPoll /\ desk'.stopRequested = desk.stopRequested
    BY <1>4, <2>3, <2>4, DeskStateSet
  <2> QED
    BY <1>3, <2>1, <2>3, <2>5, StatusKept
<1>9. CASE /\ StillCurrent(p) /\ (launch[p.on].managed => launch[p.on].ready)
           /\ desk' = [d EXCEPT !.state = "running", !.restarts = 0]
  <2>1. child = p.on /\ child # 0 /\ ~desk.failure /\ ~launch[child].ended
    BY <1>5, <1>9, DeskFacts DEF StillCurrent
  <2>2. ~launch[child].stopReq
    BY <1>9, <2>1 DEF DesktopInv, StopKnown, StillCurrent
  <2>3. LiveWorker(launch[child])
    BY <1>5, <1>9, <2>1, <2>2 DEF StillCurrent, LiveWorker
  <2>4. /\ desk' \in Desks /\ desk'.failure = desk.failure
        /\ desk'.poll = NoPoll /\ desk'.stopRequested = desk.stopRequested
    <3>1. PICK e : e = [d EXCEPT !.state = "running"]
      OBVIOUS
    <3>2. desk' = [e EXCEPT !.restarts = 0]
      BY <1>9, <3>1
    <3> QED
      BY <1>4, <3>1, <3>2 DEF Desks, DeskStates
  <2> QED
    BY <1>3, <2>1, <2>3, <2>4, StatusKept
<1> QED
  BY <1>6, <1>7, <1>8, <1>9

LEMMA AppCrashesKept ==
  ASSUME DesktopInv, AppCrashes
  PROVE  DesktopInv'
<1>1. launch' = <<>> /\ child' = 0 /\ desk' = FreshDesk /\ deskOp' = NoOp /\ enrolled' = enrolled
  BY DEF AppCrashes
<1>2. DOMAIN launch' = {} /\ launch' \in Seq(DeskAttempts)
  BY <1>1, EmptySeq
<1>3. seen \in DeskSeen
  BY DeskFacts
<1>4. seen' \in DeskSeen /\ seen'.proved = seen.proved /\ seen'.claims = seen.claims
  <2>1. PICK no \in BOOLEAN : no = FALSE
    OBVIOUS
  <2>2. PICK e : e = [seen EXCEPT !.crashes = seen.crashes + 1]
    OBVIOUS
  <2>3. seen' = [seen EXCEPT !.crashes = seen.crashes + 1, !.wanted = FALSE]
    BY DEF AppCrashes
  <2>4. seen' = [e EXCEPT !.wanted = no]
    BY ONLY <2>1, <2>2, <2>3
  <2>5. e \in DeskSeen /\ e.proved = seen.proved /\ e.claims = seen.claims
    BY ONLY <1>3, <2>2 DEF DeskSeen
  <2> QED
    BY ONLY <2>1, <2>4, <2>5 DEF DeskSeen
<1>5. desk' \in Desks
  <2>1. PICK no \in BOOLEAN : no = FALSE
    OBVIOUS
  <2>2. desk' = [state |-> "stopped", failure |-> no, stopRequested |-> no, restarts |-> 0,
                 timer |-> 0, poll |-> NoPoll, lost |-> {}]
    BY <1>1, <2>1 DEF FreshDesk
  <2> QED
    BY <2>2 DEF Desks, DeskStates, Polls
<1>6. desk'.state = "stopped" /\ ~desk'.failure /\ desk'.poll = NoPoll
  BY <1>1 DEF FreshDesk
<1>7. PICK p \in {"incomplete", "ready"} :
        /\ profile' \in {profile, [profile EXCEPT ![enrolled] = p]}
        /\ p = "ready" => deskOp.name = "completing"
  BY DEF AppCrashes
<1>8. profile \in [Computers -> {"none", "claimed", "incomplete", "completing", "ready"}]
  BY DEF DesktopInv, DesktopTypeOK
<1>9. DesktopTypeOK'
  BY <1>7, <1>8, <1>1, DeskFacts, <1>2, <1>4, <1>5 DEF NoOp, DeskOps, DesktopTypeOK
<1>10. ClaimsCounted'
  <2> SUFFICES ASSUME NEW c \in Computers
               PROVE  /\ seen.claims[c] <= 1
                      /\ profile'[c] = "none" => seen.claims[c] = 0
                      /\ profile'[c] \in {"completing", "ready"} => c \in seen.proved
    BY <1>4 DEF ClaimsCounted
  <2>1. profile'[c] = profile[c] \/ (c = enrolled /\ profile'[c] = p)
    BY <1>7, <1>8
  <2>2. /\ seen.claims[c] <= 1 /\ (profile[c] = "none" => seen.claims[c] = 0)
        /\ profile[c] \in {"completing", "ready"} => c \in seen.proved
    BY DEF DesktopInv, ClaimsCounted
  <2>3. p = "ready" => profile[enrolled] = "completing"
    BY <1>7 DEF DesktopInv, OperationFits
  <2> QED
    BY <2>1, <2>2, <2>3
<1>11. ChildNotEnded' /\ AttemptsFit' /\ WorkersFit'
  BY <1>2 DEF ChildNotEnded, AttemptsFit, WorkersFit
<1>12. FailureKnown' /\ StopKnown' /\ PollKnown' /\ RunningKnown'
  BY <1>1, <1>6 DEF FailureKnown, StopKnown, PollKnown, RunningKnown
<1>13. OperationFits'
  BY <1>1 DEF OperationFits, NoOp, Stopping
<1> QED
  BY <1>9, <1>10, <1>11, <1>12, <1>13 DEF DesktopInv

-------------------------------------------------------------------------------
(* DesktopWorker: theorems *)

\* desktop-controller.cjs, managed-profile-store.cjs: whatever messages, exits,
\* errors, timers, status answers and crashes of the application come between the
\* user's operations, the invariant holds.
THEOREM DesktopInvHoldsAlways == DesktopSpec => []DesktopInv
<1>1. DesktopInit => DesktopInv
  BY DesktopInvInit
<1>2. DesktopInv /\ [DesktopNext]_deskVars => DesktopInv'
  <2> SUFFICES ASSUME DesktopInv, [DesktopNext]_deskVars
               PROVE  DesktopInv'
    OBVIOUS
  <2>1. CASE UNCHANGED deskVars
    BY <2>1 DEF deskVars, DesktopInv, DesktopTypeOK, ChildNotEnded, AttemptsFit, AttemptFits,
       FailureKnown, StopKnown, PollKnown, OperationFits, ClaimsCounted, WorkersFit, RunningKnown,
       LiveWorker
  <2>2. ASSUME NEW l \in DOMAIN launch,
               \/ WorkerStarts(l) \/ ChildEnds(l) \/ ExitSeen(l) \/ CloseSeen(l)
               \/ ErrorSeen(l) \/ AutoRestart(l)
               \/ \E m \in {"ready", "stopped", "reply"} : MessageSeen(l, m)
        PROVE  DesktopInv'
    BY <2>2, WorkerStartsKept, ChildEndsKept, ExitSeenKept, CloseSeenKept, ErrorSeenKept,
       AutoRestartKept, MessageSeenKept
  <2>3. ASSUME NEW l \in DOMAIN launch, TimerFires(l) PROVE DesktopInv'
    BY <2>3, RestartMoved DEF TimerFires
  <2>4. ASSUME NEW op \in Stopping, StopWorker(op) PROVE DesktopInv'
    BY <2>4, StopWorkerKept
  <2>5. CASE StartDaemon \/ StopResolves \/ Claim \/ ClaimWritten \/ PrepareResolves
             \/ CompleteWritten \/ StatusAsks \/ StatusAnswers \/ AppCrashes
    BY <2>5, StartDaemonKept, StopResolvesKept, ClaimKept, ClaimWrittenKept,
       PrepareResolvesKept, CompleteWrittenKept, StatusAsksKept, StatusAnswersKept, AppCrashesKept
  <2> QED
    BY <2>1, <2>2, <2>3, <2>4, <2>5 DEF DesktopNext
<1> QED
  BY <1>1, <1>2, PTL DEF DesktopSpec

\* One live process, and its handle in hand; no worker after a stop, a logout or a
\* change of server that succeeded, whatever timer was armed; a failure to stop
\* shows until the application is opened again; a profile is prepared once.
THEOREM DesktopIsSafe == DesktopSpec => []DesktopHolds
<1>1. DesktopInv => DesktopHolds
  BY DesktopInvHolds
<1> QED
  BY <1>1, DesktopInvHoldsAlways, PTL

-------------------------------------------------------------------------------
(* The session of a managed daemon: types *)

Clocks == Nat \cup {Off}
Requests == {<<"hello">>, <<"probe">>} \cup {EventName(e) : e \in OrdinaryEvents}
Answers == {<<"ready">>, <<"pong">>} \cup {<<verdict, e>> : verdict \in Statuses, e \in OrdinaryEvents}
             \cup {<<"refused", why>> : why \in {"credential", "expired", "protocol"}}
MessageOf(whats) == [what : whats, new : BOOLEAN]
Frames(whats) == Seq(MessageOf(whats))
Ends == {"active", "closing", "closed"}

LinkOf == [is : {"dead", "connecting", "opened", "ready", "usable"},
           open : Clocks, probe : Clocks, proved : Clocks]
Whys == {"none", "credential", "expired", "protocol", "handshake", "probe", "timeout",
         "disconnected", "grace"}
RunnerOf == [is : {"up", "failed"}, everUsable : BOOLEAN, loss : Clocks, retry : Clocks,
             why : Whys, away : Clocks, after : Clocks]
EventOf == [is : {"pending", "failed", "delivered"}, sent : BOOLEAN, kept : Clocks]
ServerOf == [is : {"none", "initializing", "ready"} \cup Ends, open : Clocks]

LinkTypeOK ==
  /\ gen \in 0 .. LastGen
  /\ link \in LinkOf /\ runner \in RunnerOf
  /\ events \in Seq(EventOf) /\ Len(events) <= LastEvent
  /\ up \in [Gens -> Frames(Requests)] /\ down \in [Gens -> Frames(Answers)]
  /\ cut \subseteq 0 .. LastGen
  /\ srv \in [Gens -> ServerOf]
  /\ bound \in 0 .. LastGen
  /\ inbox \in [Gens -> Seq(OrdinaryEvents)]
  /\ ingested \in Seq(OrdinaryEvents)

(* The invariant *)

\* A frame in a channel.
Carries(channel, what) == \E i \in DOMAIN channel : channel[i].what = what
Taken(e) == \E i \in DOMAIN ingested : ingested[i] = e

\* Sockets not opened yet carry nothing and are unknown to the server.
Unopened ==
  \A g \in Gens : g > gen =>
    up[g] = <<>> /\ down[g] = <<>> /\ g \notin cut /\ srv[g].is = "none" /\ bound # g

LinkOfRunner == IF link.is = "dead" THEN link = NoPeer ELSE gen # 0 /\ runner.is = "up"

\* A loss episode begins with the loss of a usable session and ends with the next one.
LossCounted ==
  /\ ~runner.everUsable => runner.loss = Off /\ runner.away = Off /\ link.is # "usable"
  /\ link.is = "usable" =>
       runner.loss = Off /\ runner.away = Off /\ runner.after < Grace
  /\ (runner.is = "up" /\ runner.everUsable /\ link.is # "usable") =>
       runner.loss = runner.away /\ runner.loss \in 0 .. Grace + Lag

\* How long ago a usable session was proved.
ProofCounted ==
  link.is = "usable" =>
    /\ link.open = Off /\ link.proved # Off
    /\ link.probe = Off => link.proved <= ProbeEvery + Lag
    /\ link.probe # Off => /\ link.probe <= ProbeWithin + Lag
                           /\ link.proved <= ProbeEvery + Lag + link.probe

\* A session is announced before it is proved, and once.
Pairs(channel, R) ==
  \A i, k \in DOMAIN channel : i < k => <<channel[i].what, channel[k].what>> \in R
ReadyFirst == (Answers \X Answers) \ {<<<<"pong">>, <<"ready">>>>}
AnnouncedOnce ==
  /\ \A g \in Gens : Pairs(down[g], ReadyFirst)
  /\ link.is = "usable" => ~Carries(down[gen], <<"ready">>)

\* The server has answered the first probe of what the daemon takes for usable,
\* and of every socket it has events from.
Answered ==
  /\ link.is = "usable" => srv[gen].is \in Ends
  /\ \A g \in Gens : Carries(down[g], <<"pong">>) => srv[g].is \in Ends
  /\ \A g \in Gens, e \in OrdinaryEvents : Carries(up[g], EventName(e)) => srv[g].is \in Ends
  /\ link.is \in {"connecting", "opened", "ready"} =>
       \A e \in OrdinaryEvents : ~Carries(up[gen], EventName(e))
  /\ \A g \in Gens : inbox[g] # <<>> => srv[g].is \in Ends

\* What came in and what is acknowledged, of events sent one after the other.
TakenIn ==
  /\ OrdinaryInOrder
  /\ \A e \in DOMAIN events : events[e].is = "pending" => e = Len(events)
  /\ \A e \in OrdinaryEvents : Taken(e) => e \in DOMAIN events
  /\ \A g \in Gens, e \in OrdinaryEvents : Carries(down[g], <<"accepted", e>>) => Taken(e)
  /\ \A g \in Gens, e \in OrdinaryEvents : Carries(up[g], EventName(e)) => e \in DOMAIN events
  /\ \A g \in Gens : \A i \in DOMAIN inbox[g] : inbox[g][i] \in DOMAIN events

HasRegistry(g) == srv[g].is = "active" /\ bound = g
\* Where handshakes come in turn, only the latest socket takes the registry.
InTurn ==
  /\ \A g \in Gens : srv[g].is \in {"initializing", "ready", "active"} =>
       \A h \in 1 .. g - 1 : ~HandshakeOpen(h)
  /\ gen # 0 => /\ srv[gen].is = "active" => bound = gen
                /\ ~Carries(down[gen], <<"refused", "protocol">>)
  /\ NotRefusedByProtocol

LinkInv ==
  /\ LinkTypeOK /\ Unopened /\ LinkOfRunner /\ LossCounted /\ ProofCounted
  /\ AnnouncedOnce /\ Answered /\ TakenIn
  /\ HandshakesInTurn => InTurn

(* Channels *)

LEMMA FunctionSeq ==
  ASSUME NEW S, NEW n \in Nat, NEW f \in [1 .. n -> S]
  PROVE  f \in Seq(S) /\ Len(f) = n
OBVIOUS

LEMMA FrameNames ==
  /\ <<"hello">> # <<"probe">> /\ <<"ready">> # <<"pong">>
  /\ \A e : EventName(e) # <<"hello">> /\ EventName(e) # <<"probe">>
  /\ \A a, b : EventName(a) = EventName(b) => a = b
  /\ \A a, b : <<"accepted", a>> = <<"accepted", b>> => a = b
  /\ \A a, b : <<"refused", a>> = <<"refused", b>> => a = b
  /\ \A a, b : <<"accepted", a>> # <<"rejected", b>>
  /\ \A a, b : <<"accepted", a>> # <<"refused", b>> /\ <<"rejected", a>> # <<"refused", b>>
  /\ \A a, b : <<a, b>> # <<"pong">> /\ <<a, b>> # <<"ready">>
BY DEF EventName

LEMMA FrameKinds ==
  ASSUME NEW W, NEW ch \in Frames(W)
  PROVE  \A v : Carries(ch, v) => v \in W
<1>1. \A i \in DOMAIN ch : ch[i] \in MessageOf(W)
  BY DEF Frames
<1> QED
  BY <1>1 DEF Carries, MessageOf

\* Messages written at the end of a channel.
LEMMA Written ==
  ASSUME NEW W, NEW ch \in Frames(W), NEW ws \in Seq(W)
  PROVE  /\ ch \o Messages(ws) \in Frames(W)
         /\ Len(ch \o Messages(ws)) = Len(ch) + Len(ws)
         /\ \A i \in DOMAIN ch : (ch \o Messages(ws))[i] = ch[i]
         /\ \A i \in DOMAIN ws : (ch \o Messages(ws))[Len(ch) + i].what = ws[i]
         /\ \A w : Carries(ch \o Messages(ws), w) <=>
                     Carries(ch, w) \/ \E i \in DOMAIN ws : ws[i] = w
<1> DEFINE ms == Messages(ws)
           all == ch \o ms
<1>1. ms \in Frames(W) /\ Len(ms) = Len(ws) /\ \A i \in DOMAIN ws : ms[i].what = ws[i]
  <2>1. Len(ws) \in Nat /\ DOMAIN ws = 1 .. Len(ws) /\ \A i \in DOMAIN ws : ws[i] \in W
    OBVIOUS
  <2>2. ms \in [1 .. Len(ws) -> MessageOf(W)]
    BY <2>1 DEF Messages, Message, MessageOf
  <2>3. \A i \in DOMAIN ws : ms[i].what = ws[i]
    BY <2>1 DEF Messages, Message
  <2> QED
    BY <2>1, <2>2, <2>3, FunctionSeq, Zenon DEF Frames
<1> HIDE DEF ms
<1>2. ch \in Seq(MessageOf(W)) /\ ms \in Seq(MessageOf(W))
  BY <1>1 DEF Frames
<1>3. /\ all \in Seq(MessageOf(W)) /\ Len(all) = Len(ch) + Len(ms)
      /\ \A i \in 1 .. Len(ch) + Len(ms) :
           all[i] = IF i <= Len(ch) THEN ch[i] ELSE ms[i - Len(ch)]
  BY <1>2, ConcatProperties
<1> HIDE DEF all
<1>4. all \in Frames(W) /\ Len(all) = Len(ch) + Len(ws)
  BY <1>1, <1>3 DEF Frames
<1>5. \A i \in DOMAIN ch : all[i] = ch[i]
  BY <1>2, <1>3, <1>1
<1>6. \A i \in DOMAIN ws : all[Len(ch) + i].what = ws[i]
  BY <1>2, <1>3, <1>1
<1>7. ASSUME NEW w PROVE Carries(all, w) <=> Carries(ch, w) \/ \E i \in DOMAIN ws : ws[i] = w
  <2>1. ASSUME NEW i \in DOMAIN all, all[i].what = w
        PROVE  Carries(ch, w) \/ \E k \in DOMAIN ws : ws[k] = w
    <3>1. CASE i <= Len(ch)
      BY <3>1, <2>1, <1>2, <1>3 DEF Carries
    <3>2. CASE ~(i <= Len(ch))
      BY <3>2, <1>1, <1>2, <1>3, <2>1, SMTT(30)
    <3> QED
      BY <3>1, <3>2
  <2>2. ASSUME Carries(ch, w) PROVE Carries(all, w)
    <3>1. PICK i \in DOMAIN ch : ch[i].what = w
      BY <2>2 DEF Carries
    <3>2. i \in DOMAIN all /\ all[i] = ch[i]
      BY <1>1, <1>2, <1>3, <1>5
    <3> QED
      BY <3>1, <3>2 DEF Carries
  <2>3. ASSUME NEW k \in DOMAIN ws, ws[k] = w PROVE Carries(all, w)
    <3>1. Len(ch) + k \in DOMAIN all /\ all[Len(ch) + k].what = w
      BY <1>2, <1>3, <1>1, <1>6, <2>3
    <3> QED
      BY <3>1 DEF Carries
  <2> QED
    BY <2>1, <2>2, <2>3 DEF Carries
<1> QED
  BY <1>4, <1>5, <1>6, <1>7 DEF all, ms

\* One message written.
LEMMA WrittenOne ==
  ASSUME NEW W, NEW ch \in Frames(W), NEW w \in W
  PROVE  /\ Append(ch, Message(w)) \in Frames(W)
         /\ Len(Append(ch, Message(w))) = Len(ch) + 1
         /\ \A i \in DOMAIN ch : Append(ch, Message(w))[i] = ch[i]
         /\ Append(ch, Message(w))[Len(ch) + 1].what = w
         /\ \A v : Carries(Append(ch, Message(w)), v) <=> Carries(ch, v) \/ v = w
<1> DEFINE all == Append(ch, Message(w))
<1>1. ch \in Seq(MessageOf(W)) /\ Message(w) \in MessageOf(W)
  BY DEF Frames, Message, MessageOf
<1>2. /\ all \in Seq(MessageOf(W)) /\ Len(all) = Len(ch) + 1
      /\ \A i \in 1 .. Len(ch) : all[i] = ch[i]
      /\ all[Len(ch) + 1].what = w
  BY <1>1, AppendProperties DEF Message
<1> HIDE DEF all
<1>3. ASSUME NEW v PROVE Carries(all, v) <=> Carries(ch, v) \/ v = w
  BY <1>1, <1>2 DEF Carries
<1>4. \A i \in DOMAIN ch : all[i] = ch[i]
  BY <1>1, <1>2
<1> QED
  BY <1>2, <1>3, <1>4 DEF all, Frames

\* The first message taken.
LEMMA TakenOff ==
  ASSUME NEW W, NEW ch \in Frames(W), ch # <<>>
  PROVE  /\ Tail(ch) \in Frames(W) /\ Len(Tail(ch)) = Len(ch) - 1 /\ Head(ch) = ch[1]
         /\ Head(ch).what \in W
         /\ \A i \in DOMAIN Tail(ch) : Tail(ch)[i] = ch[i + 1]
         /\ Carries(ch, Head(ch).what)
         /\ \A w : Carries(Tail(ch), w) => Carries(ch, w)
         /\ \A w : Carries(ch, w) => w = Head(ch).what \/ Carries(Tail(ch), w)
<1>1. ch \in Seq(MessageOf(W))
  BY DEF Frames
<1>2. /\ Tail(ch) \in Seq(MessageOf(W)) /\ Len(Tail(ch)) = Len(ch) - 1
      /\ Head(ch) = ch[1] /\ Len(ch) \in Nat \ {0}
      /\ \A i \in 1 .. Len(ch) - 1 : Tail(ch)[i] = ch[i + 1]
  BY <1>1, HeadTailProperties, EmptySeq
<1>3. Head(ch).what \in W /\ Carries(ch, Head(ch).what)
  <2>1. 1 \in DOMAIN ch /\ ch[1] \in MessageOf(W)
    BY <1>1, <1>2
  <2> QED
    BY <2>1, <1>2 DEF Carries, MessageOf
<1>4. \A w : Carries(Tail(ch), w) => Carries(ch, w)
  <2> SUFFICES ASSUME NEW w, NEW i \in DOMAIN Tail(ch), Tail(ch)[i].what = w PROVE Carries(ch, w)
    BY DEF Carries
  <2>1. i + 1 \in DOMAIN ch /\ ch[i + 1].what = w
    BY <1>1, <1>2
  <2> QED
    BY <2>1 DEF Carries
<1>5. \A w : Carries(ch, w) => w = Head(ch).what \/ Carries(Tail(ch), w)
  <2> SUFFICES ASSUME NEW w, NEW i \in DOMAIN ch, ch[i].what = w, i # 1 PROVE Carries(Tail(ch), w)
    BY <1>2 DEF Carries
  <2>1. i - 1 \in DOMAIN Tail(ch) /\ Tail(ch)[i - 1].what = w
    BY <1>1, <1>2
  <2> QED
    BY <2>1 DEF Carries
<1> QED
  BY <1>1, <1>2, <1>3, <1>4, <1>5 DEF Frames

\* A socket cut in the middle of what it carries.
LEMMA CutOff ==
  ASSUME NEW W, NEW ch \in Frames(W), NEW n \in 0 .. Len(ch)
  PROVE  /\ SubSeq(ch, 1, n) \in Frames(W) /\ Len(SubSeq(ch, 1, n)) = n
         /\ \A i \in 1 .. n : SubSeq(ch, 1, n)[i] = ch[i]
         /\ \A w : Carries(SubSeq(ch, 1, n), w) => Carries(ch, w)
<1>1. ch \in Seq(MessageOf(W))
  BY DEF Frames
<1>2. /\ SubSeq(ch, 1, n) \in Seq(MessageOf(W)) /\ Len(SubSeq(ch, 1, n)) = n
      /\ \A i \in 1 .. n : SubSeq(ch, 1, n)[i] = ch[i]
  <2>1. \A i \in 1 .. n : ch[i] \in MessageOf(W)
    BY <1>1
  <2> DEFINE part == SubSeq(ch, 1, n)
  <2>2. /\ part \in Seq(MessageOf(W))
        /\ Len(part) = IF 1 <= n THEN n - 1 + 1 ELSE 0
        /\ \A i \in 1 .. n - 1 + 1 : part[i] = ch[1 + i - 1]
    BY <2>1, SubSeqProperties
  <2> HIDE DEF part
  <2>3. n \in Nat
    BY <1>1
  <2> QED
    BY <2>2, <2>3 DEF part
<1>3. \A w : Carries(SubSeq(ch, 1, n), w) => Carries(ch, w)
  BY <1>1, <1>2 DEF Carries
<1> QED
  BY <1>2, <1>3 DEF Frames

\* Messages that can arrive now.
LEMMA AgedSame ==
  ASSUME NEW W, NEW chs \in [Gens -> Frames(W)]
  PROVE  /\ Aged(chs) \in [Gens -> Frames(W)]
         /\ \A g \in Gens : /\ Len(Aged(chs)[g]) = Len(chs[g])
                            /\ \A i \in DOMAIN chs[g] : Aged(chs)[g][i].what = chs[g][i].what
                            /\ \A w : Carries(Aged(chs)[g], w) <=> Carries(chs[g], w)
<1>1. ASSUME NEW g \in Gens
      PROVE  /\ Aged(chs)[g] \in Frames(W) /\ Len(Aged(chs)[g]) = Len(chs[g])
             /\ \A i \in DOMAIN chs[g] : Aged(chs)[g][i].what = chs[g][i].what
             /\ DOMAIN Aged(chs)[g] = DOMAIN chs[g]
  <2> DEFINE ch == chs[g]
             old == [i \in DOMAIN ch |-> [ch[i] EXCEPT !.new = FALSE]]
  <2>1. ch \in Seq(MessageOf(W)) /\ Aged(chs)[g] = old
    BY DEF Aged, Frames
  <2>2. Len(ch) \in Nat /\ DOMAIN ch = 1 .. Len(ch) /\ \A i \in DOMAIN ch : ch[i] \in MessageOf(W)
    BY <2>1
  <2>4. old \in [1 .. Len(ch) -> MessageOf(W)] /\ \A i \in DOMAIN ch : old[i].what = ch[i].what
    BY <2>2 DEF MessageOf
  <2> HIDE DEF old
  <2>3. old \in Seq(MessageOf(W)) /\ Len(old) = Len(ch) /\ DOMAIN old = 1 .. Len(ch)
    BY <2>2, <2>4, FunctionSeq
  <2> QED
    BY <2>1, <2>2, <2>3, <2>4 DEF Frames
<1>2. Aged(chs) \in [Gens -> Frames(W)]
  BY <1>1 DEF Aged
<1>3. \A g \in Gens : \A w : Carries(Aged(chs)[g], w) <=> Carries(chs[g], w)
  BY <1>1 DEF Carries
<1> QED
  BY <1>1, <1>2, <1>3

(* What comes before what on a channel *)

LEMMA PairsTaken ==
  ASSUME NEW W, NEW R, NEW ch \in Frames(W), ch # <<>>, Pairs(ch, R)
  PROVE  Pairs(Tail(ch), R) /\ \A v : Carries(Tail(ch), v) => <<Head(ch).what, v>> \in R
<1>1. /\ Tail(ch) \in Frames(W) /\ Len(Tail(ch)) = Len(ch) - 1 /\ Head(ch) = ch[1]
      /\ \A i \in DOMAIN Tail(ch) : Tail(ch)[i] = ch[i + 1]
  BY TakenOff
<1>2. /\ DOMAIN ch = 1 .. Len(ch) /\ Len(ch) \in Nat /\ DOMAIN Tail(ch) = 1 .. Len(Tail(ch))
      /\ Len(Tail(ch)) \in Nat
  BY <1>1 DEF Frames
<1>3. \A i \in DOMAIN Tail(ch) : i + 1 \in DOMAIN ch /\ 1 \in DOMAIN ch /\ i \in Nat /\ 1 < i + 1
  BY <1>1, <1>2
<1>4. Pairs(Tail(ch), R)
  <2> SUFFICES ASSUME NEW i \in DOMAIN Tail(ch), NEW k \in DOMAIN Tail(ch), i < k
               PROVE  <<Tail(ch)[i].what, Tail(ch)[k].what>> \in R
    BY DEF Pairs
  <2>1. i + 1 < k + 1
    BY <1>3
  <2> QED
    BY <1>1, <1>3, <2>1 DEF Pairs
<1>5. ASSUME NEW i \in DOMAIN Tail(ch) PROVE <<Head(ch).what, Tail(ch)[i].what>> \in R
  BY <1>1, <1>3 DEF Pairs
<1> QED
  BY <1>4, <1>5 DEF Carries

\* What is left when a channel is cut, or has aged.
LEMMA PairsLeft ==
  ASSUME NEW W, NEW R, NEW ch \in Frames(W), Pairs(ch, R), NEW new \in Frames(W),
         Len(new) <= Len(ch), \A i \in DOMAIN new : new[i].what = ch[i].what
  PROVE  Pairs(new, R)
BY DEF Frames, Pairs

LEMMA PairsWritten ==
  ASSUME NEW W, NEW R, NEW ch \in Frames(W), Pairs(ch, R), NEW new \in Frames(W), NEW n \in Nat,
         Len(new) = Len(ch) + n, \A i \in DOMAIN ch : new[i] = ch[i],
         \A v : Carries(ch, v) => \A i \in 1 .. n : <<v, new[Len(ch) + i].what>> \in R,
         \A i, k \in 1 .. n : i < k => <<new[Len(ch) + i].what, new[Len(ch) + k].what>> \in R
  PROVE  Pairs(new, R)
<1>1. /\ DOMAIN ch = 1 .. Len(ch) /\ Len(ch) \in Nat /\ DOMAIN new = 1 .. Len(ch) + n
  BY DEF Frames
<1> SUFFICES ASSUME NEW i \in DOMAIN new, NEW k \in DOMAIN new, i < k
             PROVE  <<new[i].what, new[k].what>> \in R
  BY DEF Pairs
<1>2. i \in Nat /\ k \in Nat /\ i >= 1 /\ k >= 1
  BY <1>1
<1>3. CASE k \in DOMAIN ch
  BY <1>1, <1>2, <1>3 DEF Pairs
<1>4. CASE i \in DOMAIN ch /\ k \notin DOMAIN ch
  <2>1. Carries(ch, ch[i].what) /\ new[i] = ch[i]
    BY <1>4 DEF Carries
  <2>2. k - Len(ch) \in 1 .. n /\ Len(ch) + (k - Len(ch)) = k
    BY <1>1, <1>2, <1>4
  <2> QED
    BY <2>1, <2>2
<1>5. CASE i \notin DOMAIN ch /\ k \notin DOMAIN ch
  <2>1. /\ i - Len(ch) \in 1 .. n /\ k - Len(ch) \in 1 .. n /\ i - Len(ch) < k - Len(ch)
        /\ Len(ch) + (i - Len(ch)) = i /\ Len(ch) + (k - Len(ch)) = k
    BY <1>1, <1>2, <1>5
  <2> QED
    BY <2>1
<1> QED
  BY <1>3, <1>4, <1>5

(* The order of sending *)

Sorted(s, P) ==
  s \in [1 .. Cardinality(P) -> P] /\ \A i, k \in DOMAIN s : i < k => s[i] < s[k]

\* A set of numbers up to n can be sorted.
LEMMA SortedExists ==
  \A n \in Nat : \A P \in SUBSET (1 .. n) : \E s : Sorted(s, P)
<1> DEFINE Bad == {n \in Nat : \E P \in SUBSET (1 .. n) : ~\E s : Sorted(s, P)}
<1> SUFFICES ASSUME Bad # {} PROVE FALSE
  OBVIOUS
<1>1. PICK n \in Bad : \A k \in Bad : n <= k
  <2>1. Bad \subseteq Nat
    OBVIOUS
  <2> HIDE DEF Bad
  <2> QED
    BY <2>1, FirstPlace
<1>2. PICK P \in SUBSET (1 .. n) : ~\E s : Sorted(s, P)
  OBVIOUS
<1>0. n \in Nat
  OBVIOUS
<1>3. n # 0
  <2> SUFFICES ASSUME n = 0 PROVE FALSE
    OBVIOUS
  <2>1. P = {}
    OBVIOUS
  <2>3. Cardinality(P) = 0 /\ 1 .. Cardinality(P) = {}
    BY <2>1, FS_EmptySet
  <2>2. Sorted(<<>>, P)
    BY <2>3 DEF Sorted
  <2> QED
    BY <2>2, <1>2
<1>4. n - 1 \in Nat /\ n - 1 \notin Bad
  <2> QED
    BY <1>0, <1>1, <1>3
<1>5. \A Q \in SUBSET (1 .. n - 1) : \E s : Sorted(s, Q)
  BY <1>4
<1>6. n \in P
  <2> SUFFICES ASSUME n \notin P PROVE FALSE
    OBVIOUS
  <2>1. P \in SUBSET (1 .. n - 1)
    BY <1>4
  <2> QED
    BY <2>1, <1>5, <1>2
<1> DEFINE Q == P \ {n}
<1>7. Q \in SUBSET (1 .. n - 1)
  BY <1>4
<1>8. PICK s : Sorted(s, Q)
  BY <1>5, <1>7
<1>9. IsFiniteSet(P) /\ Cardinality(P) \in Nat /\ Cardinality(Q) = Cardinality(P) - 1 /\ Cardinality(Q) \in Nat
  <2>0. IsFiniteSet(1 .. n)
    BY <1>0, FS_Interval
  <2>1. IsFiniteSet(P)
    BY <2>0, FS_Subset
  <2>2. IsFiniteSet(Q) /\ Cardinality(Q) = Cardinality(P) - 1
    BY <2>1, <1>6, FS_RemoveElement
  <2> QED
    BY <2>1, <2>2, FS_CardinalityType
<1> DEFINE t == [i \in 1 .. Cardinality(P) |-> IF i = Cardinality(P) THEN n ELSE s[i]]
<1> HIDE DEF Q, Bad
<1>10. /\ s \in [1 .. Cardinality(P) - 1 -> Q]
       /\ \A i, k \in 1 .. Cardinality(P) - 1 : i < k => s[i] < s[k]
  BY <1>8, <1>9 DEF Sorted
<1>11. \A i \in 1 .. Cardinality(P) : t[i] \in P
  BY <1>6, <1>9, <1>10 DEF Q
<1>12. \A i, k \in 1 .. Cardinality(P) : i < k => t[i] < t[k]
  <2> SUFFICES ASSUME NEW i \in 1 .. Cardinality(P), NEW k \in 1 .. Cardinality(P), i < k PROVE t[i] < t[k]
    OBVIOUS
  <2>1. i \in 1 .. Cardinality(P) - 1 /\ t[i] = s[i]
    BY <1>9
  <2>2. s[i] \in Q
    BY <2>1, <1>10
  <2>3. s[i] \in 1 .. n - 1
    BY <2>2, <1>7
  <2>4. CASE k = Cardinality(P)
    BY <2>1, <2>3, <2>4, <1>0
  <2>5. CASE k # Cardinality(P)
    BY <2>5, <1>9, <2>1, <1>10
  <2> QED
    BY <2>4, <2>5
<1>13. Sorted(t, P)
  BY <1>11, <1>12 DEF Sorted
<1> QED
  BY <1>13, <1>2

LEMMA PendingSorted ==
  ASSUME LinkTypeOK
  PROVE  /\ Pending \in Seq(OrdinaryEvents)
         /\ \A i, k \in DOMAIN Pending : i < k => Pending[i] < Pending[k]
         /\ \A e : (\E i \in DOMAIN Pending : Pending[i] = e) <=>
                      e \in OrdinaryEvents /\ IsPending(e) /\ ~Overdue(e)
<1> DEFINE P == {e \in OrdinaryEvents : IsPending(e) /\ ~Overdue(e)}
<1>1. P \in SUBSET (1 .. LastEvent) /\ LastEvent \in Nat
  BY LinkAssumption DEF OrdinaryEvents
<1>2. IsFiniteSet(P) /\ Cardinality(P) \in Nat
  <2>1. IsFiniteSet(1 .. LastEvent)
    BY <1>1, FS_Interval
  <2> HIDE DEF P
  <2>2. IsFiniteSet(P)
    BY <2>1, <1>1, FS_Subset
  <2> QED
    BY <2>2, FS_CardinalityType
<1>3. \E s : Sorted(s, P)
  BY <1>1, SortedExists
<1>4. Sorted(Pending, P)
  BY <1>3 DEF Pending, Sorted
<1> HIDE DEF P
<1>5. Pending \in [1 .. Cardinality(P) -> P] /\ \A i, k \in DOMAIN Pending : i < k => Pending[i] < Pending[k]
  BY <1>4 DEF Sorted
<1>6. Pending \in Seq(P) /\ DOMAIN Pending = 1 .. Cardinality(P)
  BY <1>2, <1>5, FunctionSeq
<1>7. Pending \in Surjection(1 .. Cardinality(P), P)
  <2>1. \A i, k \in 1 .. Cardinality(P) : Pending[i] = Pending[k] => i = k
    <3> SUFFICES ASSUME NEW i \in 1 .. Cardinality(P), NEW k \in 1 .. Cardinality(P), i < k
                 PROVE  Pending[i] # Pending[k]
      BY <1>2
    <3>1. Pending[i] < Pending[k] /\ Pending[i] \in Int /\ Pending[k] \in Int
      BY <1>1, <1>5, <1>6 DEF P
    <3> QED
      BY <3>1
  <2>2. Pending \in Injection(1 .. Cardinality(P), P)
    BY <2>1, <1>5 DEF Injection, IsInjective
  <2>3. Cardinality(1 .. Cardinality(P)) = Cardinality(P)
    BY <1>2, FS_Interval
  <2> QED
    BY <2>2, <2>3, <1>2, FS_Injection
<1>8. \A e : (\E i \in DOMAIN Pending : Pending[i] = e) <=> e \in P
  BY <1>5, <1>7 DEF Surjection
<1>9. Pending \in Seq(OrdinaryEvents)
  BY <1>6 DEF P
<1> QED
  BY <1>5, <1>8, <1>9 DEF P

(* What the operators on sockets do *)

LEMMA WroteUp ==
  ASSUME LinkTypeOK, gen \in Gens, NEW ws \in Seq(Requests)
  PROVE  /\ Wrote(ws) \in [Gens -> Frames(Requests)]
         /\ \A g \in Gens \ {gen} : Wrote(ws)[g] = up[g]
         /\ gen \in cut => Wrote(ws) = up
         /\ gen \notin cut => Wrote(ws)[gen] = up[gen] \o Messages(ws)
         /\ \A w : Carries(up[gen], w) => Carries(Wrote(ws)[gen], w)
         /\ \A w : Carries(Wrote(ws)[gen], w) => Carries(up[gen], w) \/ \E i \in DOMAIN ws : ws[i] = w
BY Written DEF LinkTypeOK, Wrote

LEMMA ToldDown ==
  ASSUME LinkTypeOK, NEW g \in Gens, NEW w \in Answers
  PROVE  /\ Told(g, w) \in [Gens -> Frames(Answers)]
         /\ \A h \in Gens \ {g} : Told(g, w)[h] = down[h]
         /\ \A h \in Gens : \A v : Carries(Told(g, w)[h], v) => Carries(down[h], v) \/ (h = g /\ v = w)
BY WrittenOne DEF LinkTypeOK, Told

LEMMA UpTaken ==
  ASSUME LinkTypeOK, NEW g \in Gens, NEW w, AtServer(g, w)
  PROVE  /\ TakenUp(g) \in [Gens -> Frames(Requests)]
         /\ \A h \in Gens \ {g} : TakenUp(g)[h] = up[h]
         /\ TakenUp(g)[g] = Tail(up[g]) /\ up[g] # <<>> /\ Head(up[g]).what = w
         /\ w \in Requests /\ Carries(up[g], w)
         /\ \A h \in Gens : \A v : Carries(TakenUp(g)[h], v) => Carries(up[h], v)
         /\ \A v : Carries(up[g], v) => v = w \/ Carries(TakenUp(g)[g], v)
<1>1. up \in [Gens -> Frames(Requests)] /\ up[g] \in Frames(Requests)
  BY DEF LinkTypeOK
<1>2. up[g] # <<>> /\ Head(up[g]).what = w
  BY DEF AtServer, Arrives
<1>3. TakenUp(g) = [up EXCEPT ![g] = Tail(up[g])]
  BY DEF TakenUp
<1>4. /\ Tail(up[g]) \in Frames(Requests) /\ Head(up[g]).what \in Requests
      /\ Carries(up[g], Head(up[g]).what)
      /\ \A v : Carries(Tail(up[g]), v) => Carries(up[g], v)
      /\ \A v : Carries(up[g], v) => v = Head(up[g]).what \/ Carries(Tail(up[g]), v)
  BY <1>1, <1>2, TakenOff
<1> QED
  BY <1>1, <1>2, <1>3, <1>4

LEMMA DownTaken ==
  ASSUME LinkTypeOK, NEW w, AtDaemon(w)
  PROVE  /\ gen \in Gens /\ link.is # "dead"
         /\ TakenDown \in [Gens -> Frames(Answers)]
         /\ w \in Answers /\ Carries(down[gen], w)
         /\ \A h \in Gens \ {gen} : TakenDown[h] = down[h]
         /\ \A h \in Gens : \A v : Carries(TakenDown[h], v) => Carries(down[h], v)
<1>0. gen \in Gens /\ link.is # "dead"
  BY DEF AtDaemon
<1>1. down \in [Gens -> Frames(Answers)] /\ down[gen] \in Frames(Answers)
  BY <1>0 DEF LinkTypeOK
<1>2. down[gen] # <<>> /\ Head(down[gen]).what = w
  BY DEF AtDaemon, Arrives
<1>3. TakenDown = [down EXCEPT ![gen] = Tail(down[gen])]
  BY DEF TakenDown
<1>4. /\ Tail(down[gen]) \in Frames(Answers) /\ Head(down[gen]).what \in Answers
      /\ Carries(down[gen], Head(down[gen]).what)
      /\ \A v : Carries(Tail(down[gen]), v) => Carries(down[gen], v)
  BY <1>1, <1>2, TakenOff
<1> QED
  BY <1>0, <1>1, <1>2, <1>3, <1>4

(* Types *)

\* The same events, some of them settled.
Settled(evs) ==
  /\ evs \in Seq(EventOf) /\ Len(evs) = Len(events)
  /\ \A e \in DOMAIN events : evs[e].is # events[e].is =>
       events[e].is = "pending" /\ evs[e].is \in {"failed", "delivered"}

LEMMA EventsSettled ==
  ASSUME LinkTypeOK
  PROVE  /\ Settled(events) /\ Settled(Flushed) /\ Settled(Unsent) /\ Settled(FailedEvents)
         /\ \A e \in DOMAIN events, to \in {"failed", "delivered"} :
              events[e].is = "pending" => Settled([events EXCEPT ![e].is = to])
         /\ Settled([e \in DOMAIN events |-> [events[e] EXCEPT !.kept = Later(@, RetainFor)]])
<1>0. Off \in Clocks /\ \A c \in Clocks, n \in Nat : Later(c, n) \in Clocks
  BY DEF Clocks, Later, Off
<1>1. /\ events \in Seq(EventOf) /\ Len(events) \in Nat /\ DOMAIN events = 1 .. Len(events)
      /\ \A e \in DOMAIN events : events[e] \in EventOf
  BY DEF LinkTypeOK
<1>2. ASSUME NEW f \in [1 .. Len(events) -> EventOf],
             \A e \in DOMAIN events : f[e].is # events[e].is =>
               events[e].is = "pending" /\ f[e].is \in {"failed", "delivered"}
      PROVE  Settled(f)
  BY <1>1, <1>2, FunctionSeq DEF Settled
<1>3. Settled(events)
  BY <1>1 DEF Settled
<1>4. Settled(Flushed)
  BY <1>1, <1>2 DEF Flushed, EventOf
<1>5. Settled(Unsent)
  BY <1>1, <1>2 DEF Unsent, EventOf
<1>6. Settled(FailedEvents)
  BY <1>1, <1>2 DEF FailedEvents, EventOf
<1>7. ASSUME NEW e \in DOMAIN events, NEW to \in {"failed", "delivered"}, events[e].is = "pending"
      PROVE  Settled([events EXCEPT ![e].is = to])
  <2> DEFINE f == [events EXCEPT ![e].is = to]
  <2>1. f \in [1 .. Len(events) -> EventOf] /\ \A i \in DOMAIN events : f[i].is = IF i = e THEN to ELSE events[i].is
    BY <1>1 DEF EventOf
  <2> HIDE DEF f
  <2>2. Settled(f)
    BY <2>1, <1>2, <1>7
  <2> QED
    BY <2>2 DEF f
<1>8. Settled([e \in DOMAIN events |-> [events[e] EXCEPT !.kept = Later(@, RetainFor)]])
  <2> DEFINE f == [e \in DOMAIN events |-> [events[e] EXCEPT !.kept = Later(@, RetainFor)]]
  <2>1. RetainFor \in Nat
    BY LinkAssumption
  <2>2. f \in [1 .. Len(events) -> EventOf] /\ \A i \in DOMAIN events : f[i].is = events[i].is
    BY <1>0, <1>1, <2>1 DEF EventOf
  <2> HIDE DEF f
  <2>3. Settled(f)
    BY <2>2, <1>2
  <2> QED
    BY <2>3 DEF f
<1> QED
  BY <1>3, <1>4, <1>5, <1>6, <1>7, <1>8

LEMMA ClocksRun ==
  /\ Off \in Clocks /\ Started \in Clocks /\ Off # Started
  /\ \A c \in Clocks, n \in Nat : Later(c, n) \in Clocks
  /\ \A c \in Clocks, n \in Nat : c # Off => Later(c, n) # Off /\ Later(c, n) <= c + 1
  /\ \A n \in Nat : Later(Off, n) = Off
BY DEF Clocks, Later, Off, Started

\* An attempt is lost, for good or not.
LEMMA Lost ==
  ASSUME LinkTypeOK, NEW why \in Whys, Lose(why) \/ Fatal(why)
  PROVE  /\ link' = NoPeer /\ link' \in LinkOf /\ link'.is = "dead"
         /\ runner' \in RunnerOf /\ Settled(events') /\ cut' = cut \cup {gen} /\ cut' \subseteq 0 .. LastGen
         /\ runner'.everUsable = runner.everUsable
         /\ \/ runner'.is = "failed" /\ runner'.why = why
               /\ runner'.loss = runner.loss /\ runner'.away = runner.away
            \/ /\ runner.everUsable /\ runner'.is = runner.is /\ runner'.why = runner.why
               /\ runner'.loss = IF runner.loss = Off THEN Started ELSE runner.loss
               /\ runner'.away = IF link.is = "usable" THEN Started ELSE runner.away
<1>1. NoPeer \in LinkOf /\ NoPeer.is = "dead"
  BY ClocksRun DEF NoPeer, LinkOf
<1>2. runner \in RunnerOf /\ gen \in 0 .. LastGen /\ cut \subseteq 0 .. LastGen
  BY DEF LinkTypeOK
<1>3. Settled(Unsent) /\ Settled(FailedEvents)
  BY EventsSettled
<1>4. CASE Fatal(why)
  BY <1>1, <1>2, <1>3, <1>4 DEF Fatal, RunnerOf
<1>5. CASE ~Fatal(why)
  BY <1>5, <1>2, ClocksRun, <1>1, <1>3 DEF Lose, RunnerOf
<1> QED
  BY <1>4, <1>5

LEMMA Usable ==
  ASSUME LinkTypeOK, gen \in Gens, BecomesUsable
  PROVE  /\ link' = Proved /\ link' \in LinkOf
         /\ link'.is = "usable" /\ link'.open = Off /\ link'.probe = Off /\ link'.proved = Started
         /\ runner' \in RunnerOf /\ runner'.is = runner.is /\ runner'.why = runner.why
         /\ runner'.everUsable /\ runner'.loss = Off /\ runner'.away = Off
         /\ runner'.after = runner.away
         /\ events' = Flushed /\ Settled(events') /\ cut' = cut
         /\ \E ws \in Seq(Requests) :
              /\ up' = Wrote(ws) /\ Len(ws) = Len(Pending)
              /\ \A i \in DOMAIN ws : ws[i] = EventName(Pending[i])
<1>1. Proved \in LinkOf /\ Proved.is = "usable" /\ Proved.open = Off /\ Proved.probe = Off
      /\ Proved.proved = Started
  BY ClocksRun DEF Proved, LinkOf, LinkTypeOK
<1>2. /\ runner' \in RunnerOf /\ runner'.is = runner.is /\ runner'.why = runner.why
      /\ runner'.everUsable /\ runner'.loss = Off /\ runner'.away = Off
      /\ runner'.after = runner.away
  BY ClocksRun DEF LinkTypeOK, BecomesUsable, RunnerOf
<1>3. Pending \in Seq(OrdinaryEvents)
  BY PendingSorted
<1> DEFINE ws == [i \in DOMAIN Pending |-> EventName(Pending[i])]
<1>4. ws \in Seq(Requests) /\ Len(ws) = Len(Pending) /\ \A i \in DOMAIN ws : ws[i] = EventName(Pending[i])
  <2>1. Len(Pending) \in Nat /\ DOMAIN Pending = 1 .. Len(Pending)
        /\ \A i \in DOMAIN Pending : Pending[i] \in OrdinaryEvents
    BY <1>3
  <2>2. ws \in [1 .. Len(Pending) -> Requests]
    BY <2>1 DEF Requests
  <2> HIDE DEF ws
  <2>3. ws \in Seq(Requests) /\ Len(ws) = Len(Pending)
    BY <2>1, <2>2, FunctionSeq
  <2> QED
    BY <2>1, <2>3 DEF ws
<1>5. up' = Wrote(ws) /\ link' = Proved /\ events' = Flushed /\ cut' = cut
  BY DEF BecomesUsable
<1> QED
  BY <1>1, <1>2, <1>4, <1>5, EventsSettled

\* One request is written.
LEMMA WroteOne ==
  ASSUME LinkTypeOK, gen \in Gens, NEW w \in Requests
  PROVE  /\ Wrote(<<w>>) \in [Gens -> Frames(Requests)]
         /\ \A g \in Gens \ {gen} : Wrote(<<w>>)[g] = up[g]
         /\ gen \in cut => Wrote(<<w>>) = up
         /\ gen \notin cut => Wrote(<<w>>)[gen] = up[gen] \o Messages(<<w>>)
         /\ gen \notin cut => Carries(Wrote(<<w>>)[gen], w)
         /\ \A v : Carries(up[gen], v) => Carries(Wrote(<<w>>)[gen], v)
         /\ \A v : Carries(Wrote(<<w>>)[gen], v) => Carries(up[gen], v) \/ v = w
<1>1. <<w>> \in Seq(Requests) /\ DOMAIN <<w>> = {1} /\ <<w>>[1] = w
  OBVIOUS
<1>2. gen \notin cut => Carries(Wrote(<<w>>)[gen], w)
  <2> SUFFICES ASSUME gen \notin cut PROVE Carries(Wrote(<<w>>)[gen], w)
    OBVIOUS
  <2>1. up[gen] \in Frames(Requests)
    BY DEF LinkTypeOK
  <2>2. Carries(up[gen] \o Messages(<<w>>), w)
    BY <1>1, <2>1, Written
  <2> QED
    BY <1>1, <2>2, WroteUp
<1>3. ASSUME NEW v, Carries(Wrote(<<w>>)[gen], v) PROVE Carries(up[gen], v) \/ v = w
  <2>1. Carries(up[gen], v) \/ \E i \in DOMAIN <<w>> : <<w>>[i] = v
    BY <1>1, <1>3, WroteUp
  <2> QED
    BY <1>1, <2>1
<1>4. /\ Wrote(<<w>>) \in [Gens -> Frames(Requests)]
      /\ \A g \in Gens \ {gen} : Wrote(<<w>>)[g] = up[g]
      /\ gen \in cut => Wrote(<<w>>) = up
      /\ gen \notin cut => Wrote(<<w>>)[gen] = up[gen] \o Messages(<<w>>)
      /\ \A v : Carries(up[gen], v) => Carries(Wrote(<<w>>)[gen], v)
  BY <1>1, WroteUp
<1> QED
  BY <1>2, <1>3, <1>4

LEMMA WhyNames ==
  {"credential", "expired", "protocol", "handshake", "probe", "timeout", "disconnected", "grace"}
     \subseteq Whys
BY DEF Whys

LEMMA RequestNames ==
  /\ <<"hello">> \in Requests /\ <<"probe">> \in Requests
  /\ \A e \in OrdinaryEvents : EventName(e) \in Requests
  /\ <<"ready">> \in Answers /\ <<"pong">> \in Answers
  /\ \A e \in OrdinaryEvents : <<"accepted", e>> \in Answers /\ <<"rejected", e>> \in Answers
  /\ \A verdict \in Statuses, e \in OrdinaryEvents : <<verdict, e>> \in Answers
  /\ \A why \in {"credential", "expired", "protocol"} : <<"refused", why>> \in Answers
BY DEF Requests, Answers, Statuses

\* The end of a connection the server refuses.
LEMMA RefuseTyped ==
  ASSUME LinkTypeOK, NEW g \in Gens, NEW why \in {"credential", "expired", "protocol"}, Refuse(g, why)
  PROVE  /\ srv' \in [Gens -> ServerOf] /\ down' \in [Gens -> Frames(Answers)]
         /\ srv'[g].is = "closing" /\ \A h \in Gens \ {g} : srv'[h] = srv[h]
         /\ \A h \in Gens \ {g} : down'[h] = down[h]
         /\ \A h \in Gens : \A v : Carries(down'[h], v) => Carries(down[h], v) \/ (h = g /\ v = <<"refused", why>>)
<1>1. srv' \in [Gens -> ServerOf] /\ srv'[g].is = "closing" /\ \A h \in Gens \ {g} : srv'[h] = srv[h]
  BY ClocksRun DEF Refuse, LinkTypeOK, ServerOf, Ends
<1>2. <<"refused", why>> \in Answers /\ down' = Told(g, <<"refused", why>>)
  BY RequestNames DEF Refuse
<1>3. /\ Told(g, <<"refused", why>>) \in [Gens -> Frames(Answers)]
      /\ \A h \in Gens \ {g} : Told(g, <<"refused", why>>)[h] = down[h]
      /\ \A h \in Gens : \A v : Carries(Told(g, <<"refused", why>>)[h], v) =>
                                Carries(down[h], v) \/ (h = g /\ v = <<"refused", why>>)
  BY <1>2, ToldDown
<1> QED
  BY <1>1, <1>2, <1>3

LEMMA DaemonTypes ==
  ASSUME LinkTypeOK, LinkInv,
         \/ Connect \/ Opens \/ ReceiveReady \/ ReceivePong \/ Probe \/ TimesOut
         \/ Disconnects \/ Refused \/ GraceExpires \/ SendEvent
         \/ \E e \in OrdinaryEvents : RetentionExpires(e) \/ \E verdict \in Statuses : ReceiveAck(e, verdict)
  PROVE  LinkTypeOK'
<1>0. /\ LastGen \in Nat /\ LastEvent \in Nat
  BY LinkAssumption
<1> USE <1>0, ClocksRun, RequestNames, WhyNames
<1>1. CASE Connect
  <2>1. gen' \in 0 .. LastGen
    BY <1>1 DEF Connect, LinkTypeOK
  <2>2. link' \in LinkOf
    BY <1>1 DEF Connect, LinkTypeOK, LinkOf, NoPeer
  <2> QED
    BY <1>1, <2>1, <2>2 DEF Connect, LinkTypeOK, wireVars, linkServerVars
<1>2. CASE Opens
  <2>1. link' \in LinkOf
    BY <1>2 DEF Opens, LinkTypeOK, LinkOf
  <2>2. gen \in Gens
    BY <1>2 DEF Opens, LinkInv, LinkOfRunner, LinkTypeOK, Gens
  <2>3. up' \in [Gens -> Frames(Requests)]
    BY <1>2, <2>2, WroteOne DEF Opens
  <2> QED
    BY <1>2, <2>1, <2>3 DEF Opens, LinkTypeOK, linkServerVars
<1>3. CASE ReceiveReady
  <2>1. gen \in Gens /\ down' \in [Gens -> Frames(Answers)]
    BY <1>3, DownTaken DEF ReceiveReady
  <2>2. CASE Lose("handshake") /\ UNCHANGED up
    BY <2>2, Lost, <1>3, <2>1 DEF ReceiveReady, LinkTypeOK, linkServerVars, Settled
  <2>3. CASE /\ link' = [link EXCEPT !.is = "ready", !.probe = Started]
             /\ up' = Wrote(<<<<"probe">>>>)
             /\ UNCHANGED <<runner, events, cut>>
    BY <2>3, <2>1, WroteOne, <1>3 DEF LinkTypeOK, LinkOf, ReceiveReady, linkServerVars
  <2> QED
    BY <1>3, <2>2, <2>3 DEF ReceiveReady
<1>4. CASE ReceivePong
  <2>1. gen \in Gens /\ down' \in [Gens -> Frames(Answers)]
    BY <1>4, DownTaken DEF ReceivePong
  <2>2. ASSUME NEW why \in Whys, Lose(why) \/ Fatal(why), UNCHANGED up PROVE LinkTypeOK'
    BY <2>2, Lost, <1>4, <2>1 DEF ReceivePong, LinkTypeOK, linkServerVars, Settled
  <2>3. CASE BecomesUsable
    BY <2>1, <2>3, Usable, WroteUp, <1>4 DEF ReceivePong, LinkTypeOK, linkServerVars, Settled
  <2>4. CASE link' = Proved /\ UNCHANGED <<runner, events, up, cut>>
    BY <2>4, <1>4, <2>1 DEF Proved, LinkTypeOK, LinkOf, ReceivePong, linkServerVars
  <2> QED
    BY <1>4, <2>2, <2>3, <2>4 DEF ReceivePong, FirstPong
<1>5. CASE Probe
  <2>1. link' \in LinkOf
    BY <1>5 DEF Probe, LinkTypeOK, LinkOf
  <2>2. gen \in Gens
    BY <1>5 DEF Probe, LinkInv, LinkOfRunner, LinkTypeOK, Gens
  <2>3. up' \in [Gens -> Frames(Requests)]
    BY <1>5, <2>2, WroteOne DEF Probe
  <2> QED
    BY <1>5, <2>1, <2>3 DEF Probe, LinkTypeOK, linkServerVars
<1>6. ASSUME NEW why \in Whys, Lose(why) \/ Fatal(why),
             gen' = gen, up' = up, linkServerVars' = linkServerVars, down' = down \/ Refused
      PROVE  LinkTypeOK'
  BY <1>6, Lost, DownTaken DEF Refused, LinkTypeOK, linkServerVars, Settled
<1>7. CASE TimesOut
  BY <1>7, <1>6 DEF TimesOut
<1>8. CASE Disconnects
  BY <1>8, <1>6 DEF Disconnects
<1>9. CASE Refused
  BY <1>9, <1>6 DEF Refused
<1>10. CASE GraceExpires
  BY <1>10, <1>6 DEF GraceExpires
<1>11. CASE SendEvent
  <2>1. PICK ev : /\ ev \in EventOf /\ events' = Append(events, ev)
                  /\ up' = IF link.is = "usable" THEN Wrote(<<EventName(Len(events) + 1)>>) ELSE up
                  /\ Len(events) < LastEvent
    <3>1. ASSUME NEW b \in BOOLEAN, NEW k \in Clocks
          PROVE  [is |-> "pending", sent |-> b, kept |-> k] \in EventOf
      BY DEF EventOf
    <3> QED
      BY <1>11, <3>1 DEF SendEvent, Enqueue
  <2>2. events \in Seq(EventOf) /\ Len(events) \in Nat
    BY DEF LinkTypeOK
  <2>3. events' \in Seq(EventOf) /\ Len(events') <= LastEvent
    BY <2>1, <2>2, AppendProperties
  <2>4. up' \in [Gens -> Frames(Requests)]
    <3>1. CASE link.is = "usable"
      <4>1. gen \in Gens
        BY <3>1 DEF LinkInv, LinkOfRunner, LinkTypeOK, Gens
      <4>2. EventName(Len(events) + 1) \in Requests
        BY <2>1, <2>2 DEF OrdinaryEvents
      <4> QED
        BY <2>1, <3>1, <4>1, <4>2, WroteOne
    <3>2. CASE link.is # "usable"
      BY <2>1, <3>2 DEF LinkTypeOK
    <3> QED
      BY <3>1, <3>2
  <2> QED
    BY <1>11, <2>3, <2>4 DEF SendEvent, LinkTypeOK, linkServerVars
<1>12. ASSUME NEW e \in OrdinaryEvents, RetentionExpires(e) PROVE LinkTypeOK'
  BY <1>12, EventsSettled DEF RetentionExpires, LinkTypeOK, linkServerVars, wireVars, Settled
<1>13. ASSUME NEW e \in OrdinaryEvents, NEW verdict \in Statuses, ReceiveAck(e, verdict) PROVE LinkTypeOK'
  <2>1. gen \in Gens /\ down' \in [Gens -> Frames(Answers)]
    BY <1>13, DownTaken DEF ReceiveAck
  <2>2. Settled(events')
    BY <1>13, EventsSettled DEF ReceiveAck, IsPending
  <2> QED
    BY <1>13, <2>1, <2>2 DEF ReceiveAck, LinkTypeOK, linkServerVars, Settled
<1> QED
  BY <1>1, <1>2, <1>3, <1>4, <1>5, <1>7, <1>8, <1>9, <1>10, <1>11, <1>12, <1>13

LEMMA ServerTypes ==
  ASSUME LinkTypeOK, NEW g \in Gens,
         \/ ServerHello(g) \/ ServerReady(g) \/ ServerProbe(g) \/ ServerTimesOut(g) \/ ServerCloses(g)
         \/ ServerIngests(g) \/ \E e \in OrdinaryEvents : ServerEvent(g, e)
  PROVE  LinkTypeOK'
<1>0. /\ LastGen \in Nat /\ Gens = 1 .. LastGen
  BY LinkAssumption DEF Gens
<1> USE <1>0, ClocksRun, RequestNames
<1>1. CASE ServerHello(g)
  <2>1. up' \in [Gens -> Frames(Requests)]
    BY <1>1, UpTaken DEF ServerHello
  <2>2. srv' \in [Gens -> ServerOf] /\ down' \in [Gens -> Frames(Answers)]
    <3>1. CASE srv' = [srv EXCEPT ![g] = [is |-> "initializing", open |-> Started]] /\ UNCHANGED down
      BY <3>1 DEF LinkTypeOK, ServerOf
    <3>2. CASE Refuse(g, "credential")
      BY <3>2, RefuseTyped
    <3> QED
      BY <1>1, <3>1, <3>2 DEF ServerHello
  <2> QED
    BY <1>1, <2>1, <2>2 DEF ServerHello, LinkTypeOK
<1>2. CASE ServerReady(g)
  <2>1. srv' \in [Gens -> ServerOf] /\ down' \in [Gens -> Frames(Answers)]
    <3>1. CASE Refuse(g, "expired")
      BY <3>1, RefuseTyped
    <3>2. CASE srv' = [srv EXCEPT ![g].is = "ready"] /\ down' = Told(g, <<"ready">>)
      <4>1. srv' \in [Gens -> ServerOf]
        BY <3>2 DEF LinkTypeOK, ServerOf
      <4> QED
        BY <3>2, <4>1, ToldDown
    <3> QED
      BY <1>2, <3>1, <3>2 DEF ServerReady
  <2> QED
    BY <1>2, <2>1 DEF ServerReady, LinkTypeOK
<1>3. CASE ServerProbe(g)
  <2>1. up' \in [Gens -> Frames(Requests)]
    BY <1>3, UpTaken DEF ServerProbe
  <2>2. srv' \in [Gens -> ServerOf] /\ down' \in [Gens -> Frames(Answers)] /\ bound' \in 0 .. LastGen
    <3>1. ASSUME NEW why \in {"expired", "protocol"}, Refuse(g, why), UNCHANGED bound
          PROVE  srv' \in [Gens -> ServerOf] /\ down' \in [Gens -> Frames(Answers)] /\ bound' \in 0 .. LastGen
      BY <3>1, RefuseTyped DEF LinkTypeOK
    <3>2. CASE /\ srv' = [srv EXCEPT ![g] = [is |-> "active", open |-> Off]]
               /\ bound' = g
               /\ down' = Told(g, <<"pong">>)
      <4>1. srv' \in [Gens -> ServerOf]
        BY <3>2 DEF LinkTypeOK, ServerOf, Ends
      <4> QED
        BY <3>2, <4>1, ToldDown
    <3> QED
      BY <1>3, <3>1, <3>2 DEF ServerProbe
  <2> QED
    BY <1>3, <2>1, <2>2 DEF ServerProbe, LinkTypeOK
<1>4. CASE ServerTimesOut(g)
  BY <1>4, RefuseTyped DEF ServerTimesOut, LinkTypeOK
<1>5. CASE ServerCloses(g)
  <2>1. srv' \in [Gens -> ServerOf]
    BY <1>5 DEF ServerCloses, LinkTypeOK, ServerOf, Ends
  <2>2. bound' \in 0 .. LastGen
    BY <1>5 DEF ServerCloses, LinkTypeOK
  <2> QED
    BY <1>5, <2>1, <2>2 DEF ServerCloses, LinkTypeOK, wireVars
<1>6. ASSUME NEW e \in OrdinaryEvents, ServerEvent(g, e) PROVE LinkTypeOK'
  <2>1. up' \in [Gens -> Frames(Requests)]
    BY <1>6, UpTaken DEF ServerEvent
  <2>2. /\ srv' \in [Gens -> ServerOf] /\ down' \in [Gens -> Frames(Answers)]
        /\ inbox' \in [Gens -> Seq(OrdinaryEvents)]
    <3>1. CASE Refuse(g, "protocol") /\ UNCHANGED inbox
      BY <3>1, RefuseTyped DEF LinkTypeOK
    <3>2. CASE inbox' = [inbox EXCEPT ![g] = Append(@, e)] /\ UNCHANGED <<srv, down>>
      BY AppendProperties, <3>2 DEF LinkTypeOK
    <3> QED
      BY <1>6, <3>1, <3>2 DEF ServerEvent
  <2> QED
    BY <1>6, <2>1, <2>2 DEF ServerEvent, LinkTypeOK
<1>7. CASE ServerIngests(g)
  <2>1. inbox \in [Gens -> Seq(OrdinaryEvents)] /\ inbox[g] \in Seq(OrdinaryEvents) /\ inbox[g] # <<>>
    BY <1>7 DEF LinkTypeOK, ServerIngests
  <2>2. Head(inbox[g]) \in OrdinaryEvents /\ Tail(inbox[g]) \in Seq(OrdinaryEvents)
    BY <2>1, HeadTailProperties
  <2>3. inbox' \in [Gens -> Seq(OrdinaryEvents)]
    BY <1>7, <2>1, <2>2 DEF ServerIngests
  <2>4. ingested' \in Seq(OrdinaryEvents)
    <3>1. ingested' = ingested \/ ingested' = Append(ingested, Head(inbox[g]))
      BY <1>7 DEF ServerIngests
    <3>2. ingested \in Seq(OrdinaryEvents)
      BY DEF LinkTypeOK
    <3>3. Append(ingested, Head(inbox[g])) \in Seq(OrdinaryEvents)
      BY <2>2, <3>2, AppendProperties, Zenon
    <3> QED
      BY <3>1, <3>2, <3>3
  <2>5. down' = down \/ \E verdict \in Statuses : down' = Told(g, <<verdict, Head(inbox[g])>>)
    BY <1>7 DEF ServerIngests, Receipt, Statuses
  <2>6. down' \in [Gens -> Frames(Answers)]
    <3>1. ASSUME NEW verdict \in Statuses
          PROVE  Told(g, <<verdict, Head(inbox[g])>>) \in [Gens -> Frames(Answers)]
      <4>1. <<verdict, Head(inbox[g])>> \in Answers
        BY <2>2, RequestNames
      <4> QED
        BY <4>1, ToldDown, Zenon
    <3> QED
      BY <2>5, <3>1 DEF LinkTypeOK
  <2> QED
    BY <1>7, <2>3, <2>4, <2>6 DEF ServerIngests, LinkTypeOK
<1> QED
  BY <1>1, <1>2, <1>3, <1>4, <1>5, <1>6, <1>7

LEMMA CutTypes ==
  ASSUME LinkTypeOK, CutSocket
  PROVE  LinkTypeOK'
<1>1. PICK i \in 0 .. Len(up[gen]), k \in 0 .. Len(down[gen]) :
        /\ up' = [up EXCEPT ![gen] = SubSeq(@, 1, i)]
        /\ down' = [down EXCEPT ![gen] = SubSeq(@, 1, k)]
  BY DEF CutSocket
<1>2. gen \in Gens /\ up[gen] \in Frames(Requests) /\ down[gen] \in Frames(Answers)
  BY DEF CutSocket, LinkTypeOK
<1>3. SubSeq(up[gen], 1, i) \in Frames(Requests) /\ SubSeq(down[gen], 1, k) \in Frames(Answers)
  BY <1>2, CutOff
<1>4. up' \in [Gens -> Frames(Requests)] /\ down' \in [Gens -> Frames(Answers)]
  BY <1>1, <1>2, <1>3 DEF LinkTypeOK
<1>5. cut' \subseteq 0 .. LastGen
  BY LinkAssumption DEF CutSocket, LinkTypeOK, Gens
<1> QED
  BY <1>4, <1>5 DEF CutSocket, LinkTypeOK, linkServerVars

\* What an instant changes.
LEMMA TickTypes ==
  ASSUME LinkTypeOK, LinkTick
  PROVE  /\ LinkTypeOK'
         /\ link'.is = link.is /\ link'.open = Later(link.open, Handshake + Lag)
         /\ link'.probe = Later(link.probe, ProbeWithin + Lag)
         /\ link'.proved = Later(link.proved, ProbeEvery + ProbeWithin + 3 * Lag)
         /\ runner'.is = runner.is /\ runner'.everUsable = runner.everUsable
         /\ runner'.why = runner.why /\ runner'.after = runner.after
         /\ runner'.loss = Later(runner.loss, Grace + Lag)
         /\ runner'.away = Later(runner.away, Grace + Lag)
         /\ \A g \in Gens : srv'[g].is = srv[g].is
         /\ Settled(events')
         /\ \A g \in Gens : /\ Len(up'[g]) = Len(up[g]) /\ Len(down'[g]) = Len(down[g])
                            /\ \A i \in DOMAIN up[g] : up'[g][i].what = up[g][i].what
                            /\ \A w : Carries(up'[g], w) <=> Carries(up[g], w)
                            /\ \A w : Carries(down'[g], w) <=> Carries(down[g], w)
<1>1. {Handshake + Lag, ProbeWithin + Lag, ProbeEvery + ProbeWithin + 3 * Lag, Grace + Lag, RetainFor}
        \subseteq Nat
  BY LinkAssumption
<1>2. /\ link' \in LinkOf /\ link'.is = link.is /\ link'.open = Later(link.open, Handshake + Lag)
      /\ link'.probe = Later(link.probe, ProbeWithin + Lag)
      /\ link'.proved = Later(link.proved, ProbeEvery + ProbeWithin + 3 * Lag)
  BY <1>1, ClocksRun DEF LinkTick, LinkTypeOK, LinkOf
<1>3. /\ runner' \in RunnerOf /\ runner'.is = runner.is /\ runner'.everUsable = runner.everUsable
      /\ runner'.why = runner.why /\ runner'.after = runner.after
      /\ runner'.loss = Later(runner.loss, Grace + Lag)
      /\ runner'.away = Later(runner.away, Grace + Lag)
  BY <1>1, ClocksRun DEF LinkTick, LinkTypeOK, RunnerOf
<1>4. srv' \in [Gens -> ServerOf] /\ \A g \in Gens : srv'[g].is = srv[g].is
  BY LinkAssumption, ClocksRun DEF LinkTick, LinkTypeOK, ServerOf
<1>5. Settled(events')
  BY EventsSettled DEF LinkTick
<1>6. up' = Aged(up) /\ down' = Aged(down) /\ up \in [Gens -> Frames(Requests)]
      /\ down \in [Gens -> Frames(Answers)]
  BY DEF LinkTick, LinkTypeOK
<1>7. /\ up' \in [Gens -> Frames(Requests)]
      /\ \A g \in Gens : /\ Len(up'[g]) = Len(up[g])
                         /\ \A i \in DOMAIN up[g] : up'[g][i].what = up[g][i].what
                         /\ \A w : Carries(up'[g], w) <=> Carries(up[g], w)
  BY <1>6, AgedSame, ZenonT(40)
<1>8. /\ down' \in [Gens -> Frames(Answers)]
      /\ \A g \in Gens : /\ Len(down'[g]) = Len(down[g])
                         /\ \A w : Carries(down'[g], w) <=> Carries(down[g], w)
  BY <1>6, AgedSame
<1>9. LinkTypeOK'
  BY <1>2, <1>3, <1>4, <1>5, <1>7, <1>8 DEF LinkTick, LinkTypeOK, Settled
<1> QED
  BY <1>2, <1>3, <1>4, <1>5, <1>7, <1>8, <1>9

LEMMA LinkTypesKept ==
  ASSUME LinkInv, LinkNext
  PROVE  LinkTypeOK'
BY DaemonTypes, ServerTypes, CutTypes, TickTypes DEF LinkInv, LinkNext

(* Sockets not opened yet *)

\* A step of the daemon touches no socket but the present one.
LEMMA DaemonTouches ==
  ASSUME LinkInv,
         \/ Opens \/ ReceiveReady \/ ReceivePong \/ Probe \/ TimesOut
         \/ Disconnects \/ Refused \/ GraceExpires \/ SendEvent
         \/ \E e \in OrdinaryEvents : RetentionExpires(e) \/ \E verdict \in Statuses : ReceiveAck(e, verdict)
  PROVE  /\ gen' = gen /\ linkServerVars' = linkServerVars
         /\ cut \subseteq cut' /\ cut' \subseteq cut \cup {gen}
         /\ \A g \in Gens \ {gen} : up'[g] = up[g] /\ down'[g] = down[g]
         /\ \A g \in Gens : \A w : Carries(down'[g], w) => Carries(down[g], w)
<1>0. LinkTypeOK
  BY DEF LinkInv
<1>1. gen' = gen /\ linkServerVars' = linkServerVars
  BY DEF Opens, ReceiveReady, ReceivePong, Probe, TimesOut, Disconnects, Refused, GraceExpires,
         SendEvent, Enqueue, RetentionExpires, ReceiveAck, linkServerVars
<1>2. cut \subseteq cut' /\ cut' \subseteq cut \cup {gen}
  BY DEF Opens, ReceiveReady, ReceivePong, Probe, TimesOut, Disconnects, Refused, GraceExpires,
         SendEvent, Enqueue, RetentionExpires, ReceiveAck, Lose, Fatal, FirstPong, BecomesUsable, wireVars
<1>3. down' = down \/ (down' = TakenDown /\ \E w : AtDaemon(w))
  BY DEF Opens, ReceiveReady, ReceivePong, Probe, TimesOut, Disconnects, Refused, GraceExpires,
         SendEvent, Enqueue, RetentionExpires, ReceiveAck, wireVars
<1>4. /\ \A g \in Gens \ {gen} : down'[g] = down[g]
      /\ \A g \in Gens : \A w : Carries(down'[g], w) => Carries(down[g], w)
  BY <1>0, <1>3, DownTaken
<1>5. up' = up \/ \E ws : up' = Wrote(ws)
  BY DEF Opens, ReceiveReady, ReceivePong, Probe, TimesOut, Disconnects, Refused, GraceExpires,
         SendEvent, Enqueue, RetentionExpires, ReceiveAck, FirstPong, BecomesUsable, wireVars
<1>6. \A g \in Gens \ {gen} : up'[g] = up[g]
  BY <1>0, <1>5 DEF LinkTypeOK, Wrote
<1> QED
  BY <1>1, <1>2, <1>4, <1>6

\* A step of the server on a socket touches that one only, which carries
\* something or is known to the server.
LEMMA ServerTouches ==
  ASSUME LinkInv, NEW g \in Gens,
         \/ ServerHello(g) \/ ServerReady(g) \/ ServerProbe(g) \/ ServerTimesOut(g) \/ ServerCloses(g)
         \/ ServerIngests(g) \/ \E e \in OrdinaryEvents : ServerEvent(g, e)
  PROVE  /\ <<gen, link, runner, events, cut>>' = <<gen, link, runner, events, cut>>
         /\ up[g] # <<>> \/ srv[g].is # "none" \/ g \in cut
         /\ \A h \in Gens \ {g} : up'[h] = up[h] /\ down'[h] = down[h] /\ srv'[h] = srv[h]
         /\ bound' \in {bound, g, 0}
         /\ \A w : Carries(up'[g], w) => Carries(up[g], w)
         /\ srv[g].is \in Ends => srv'[g].is \in Ends
         /\ srv'[g].is # "none"
<1>0. LinkTypeOK
  BY DEF LinkInv
<1>1. <<gen, link, runner, events, cut>>' = <<gen, link, runner, events, cut>>
  BY DEF ServerHello, ServerReady, ServerProbe, ServerTimesOut, ServerCloses, ServerEvent, ServerIngests, wireVars
<1>2. up' = up \/ (up' = TakenUp(g) /\ \E w : AtServer(g, w))
  BY DEF ServerHello, ServerReady, ServerProbe, ServerTimesOut, ServerCloses, ServerEvent, ServerIngests, wireVars
<1>3. /\ \A h \in Gens \ {g} : up'[h] = up[h]
      /\ \A w : Carries(up'[g], w) => Carries(up[g], w)
  BY <1>0, <1>2, UpTaken
<1>4. down' = down \/ \E w : down' = Told(g, w)
  BY DEF ServerHello, ServerReady, ServerProbe, ServerTimesOut, ServerCloses, ServerEvent, ServerIngests, Receipt,
         Refuse, wireVars
<1>5. \A h \in Gens \ {g} : down'[h] = down[h]
  BY <1>0, <1>4 DEF LinkTypeOK, Told
<1>9. ServerIngests(g) => srv[g].is # "none"
  BY DEF ServerIngests, LinkInv, Answered, Ends
<1>6. /\ \A h \in Gens \ {g} : srv'[h] = srv[h]
      /\ srv[g].is \in Ends => srv'[g].is \in Ends
      /\ srv'[g].is # "none"
  <2>1. srv \in [Gens -> ServerOf]
    BY <1>0 DEF LinkTypeOK
  <2> DEFINE Kept == /\ \A h \in Gens \ {g} : srv'[h] = srv[h]
                     /\ srv[g].is \in Ends => srv'[g].is \in Ends
                     /\ srv'[g].is # "none"
  <2>2. ASSUME NEW why, Refuse(g, why) PROVE Kept
    BY <2>1, <2>2 DEF Refuse, Ends
  <2>3. CASE ServerHello(g)
    BY <2>1, <2>2, <2>3 DEF ServerHello, Ends
  <2>4. CASE ServerReady(g)
    BY <2>1, <2>2, <2>4 DEF ServerReady, Ends, ServerOf
  <2>5. CASE ServerProbe(g)
    BY <2>1, <2>2, <2>5 DEF ServerProbe, Ends
  <2>6. CASE ServerTimesOut(g)
    BY <2>1, <2>2, <2>6 DEF ServerTimesOut
  <2>7. CASE ServerCloses(g)
    BY <2>1, <2>7 DEF ServerCloses, Ends
  <2>8. ASSUME NEW e \in OrdinaryEvents, ServerEvent(g, e) PROVE Kept
    BY <2>1, <2>2, <2>8 DEF ServerEvent, Ends
  <2>9. CASE ServerIngests(g)
    BY <2>9, <1>9 DEF ServerIngests
  <2> QED
    BY <2>3, <2>4, <2>5, <2>6, <2>7, <2>8, <2>9
<1>7. bound' \in {bound, g, 0}
  BY DEF ServerHello, ServerReady, ServerProbe, ServerTimesOut, ServerCloses, ServerEvent, ServerIngests, wireVars
<1>8. up[g] # <<>> \/ srv[g].is # "none" \/ g \in cut
  BY <1>9 DEF ServerHello, ServerReady, ServerProbe, ServerTimesOut, ServerCloses, ServerEvent, AtServer, Arrives
<1> QED
  BY <1>1, <1>3, <1>5, <1>6, <1>7, <1>8

LEMMA UnopenedKept ==
  ASSUME LinkInv, LinkNext
  PROVE  Unopened'
<1>0. LinkTypeOK /\ Unopened /\ gen \in Int /\ Gens \subseteq Nat \ {0}
  BY LinkAssumption DEF LinkInv, LinkTypeOK, Gens
<1>1. CASE Connect
  BY <1>0, <1>1 DEF Connect, Unopened, wireVars, linkServerVars
<1>2. CASE \/ Opens \/ ReceiveReady \/ ReceivePong \/ Probe \/ TimesOut
           \/ Disconnects \/ Refused \/ GraceExpires \/ SendEvent
           \/ \E e \in OrdinaryEvents : RetentionExpires(e) \/ \E verdict \in Statuses : ReceiveAck(e, verdict)
  BY <1>2, DaemonTouches, <1>0 DEF Unopened, linkServerVars
<1>3. ASSUME NEW g \in Gens,
             \/ ServerHello(g) \/ ServerReady(g) \/ ServerProbe(g) \/ ServerTimesOut(g) \/ ServerCloses(g)
             \/ ServerIngests(g) \/ \E e \in OrdinaryEvents : ServerEvent(g, e)
      PROVE  Unopened'
  BY <1>3, ServerTouches, <1>0 DEF Unopened
<1>4. CASE CutSocket
  <2>1. \A g \in Gens \ {gen} : up'[g] = up[g] /\ down'[g] = down[g]
    BY <1>0, <1>4 DEF CutSocket, LinkTypeOK
  <2>2. gen' = gen /\ cut' = cut \cup {gen} /\ srv' = srv /\ bound' = bound
    BY <1>4 DEF CutSocket, linkServerVars
  <2> SUFFICES ASSUME NEW g \in Gens, g > gen
               PROVE  up'[g] = <<>> /\ down'[g] = <<>> /\ g \notin cut' /\ srv'[g].is = "none" /\ bound' # g
    BY <2>2 DEF Unopened
  <2>3. g \in Gens \ {gen} /\ g \in Nat
    BY <1>0
  <2> QED
    BY <1>0, <2>1, <2>2, <2>3 DEF Unopened
<1>5. CASE LinkTick
  <2>1. /\ LinkTypeOK'
        /\ \A g \in Gens : Len(up'[g]) = Len(up[g]) /\ Len(down'[g]) = Len(down[g]) /\ srv'[g].is = srv[g].is
    BY <1>0, <1>5, TickTypes
  <2>2. \A g \in Gens : /\ up[g] = <<>> => up'[g] = <<>>
                        /\ down[g] = <<>> => down'[g] = <<>>
    <3> SUFFICES ASSUME NEW g \in Gens
                 PROVE  (up[g] = <<>> => up'[g] = <<>>) /\ (down[g] = <<>> => down'[g] = <<>>)
      OBVIOUS
    <3>1. /\ up'[g] \in Seq(MessageOf(Requests)) /\ down'[g] \in Seq(MessageOf(Answers))
      BY <2>1 DEF LinkTypeOK, Frames
    <3> QED
      BY <3>1, <2>1, EmptySeq
  <2> QED
    BY <1>0, <1>5, <2>1, <2>2 DEF Unopened, LinkTick
<1> QED
  BY <1>1, <1>2, <1>3, <1>4, <1>5 DEF LinkNext

(* Clocks of the session *)

\* The link, the runner and the count of what is lost.
LinkCounted == LinkOfRunner /\ LossCounted /\ ProofCounted

LEMMA CountedUnchanged ==
  ASSUME LinkInv, <<gen, link, runner>>' = <<gen, link, runner>>
  PROVE  LinkCounted'
BY DEF LinkInv, LinkCounted, LinkOfRunner, LossCounted, ProofCounted

LEMMA CountedLost ==
  ASSUME LinkInv, NEW why \in Whys, Lose(why) \/ Fatal(why), gen' = gen, link.is # "dead" \/ GraceOver
  PROVE  LinkCounted'
<1>1. /\ link' = NoPeer /\ link'.is = "dead" /\ runner' \in RunnerOf /\ runner'.everUsable = runner.everUsable
      /\ \/ runner'.is = "failed" /\ runner'.loss = runner.loss /\ runner'.away = runner.away
         \/ /\ runner.everUsable /\ runner'.is = runner.is
            /\ runner'.loss = IF runner.loss = Off THEN Started ELSE runner.loss
            /\ runner'.away = IF link.is = "usable" THEN Started ELSE runner.away
  BY Lost DEF LinkInv
<1>2. Started \in 0 .. Grace + Lag /\ Started # Off /\ ~(Off \in 0 .. Grace + Lag)
  BY LinkAssumption DEF Started, Off
<1>3. runner.is = "up"
  BY DEF LinkInv, LinkOfRunner, GraceOver
<1>4. LossCounted'
  BY <1>1, <1>2, <1>3 DEF LinkInv, LossCounted
<1> QED
  BY <1>1, <1>4 DEF LinkCounted, LinkOfRunner, ProofCounted

LEMMA CountedKept ==
  ASSUME LinkInv, LinkNext
  PROVE  LinkCounted'
<1>0. /\ LinkTypeOK /\ link \in LinkOf /\ runner \in RunnerOf /\ gen \in 0 .. LastGen /\ LastGen \in Nat
      /\ LinkOfRunner /\ LossCounted /\ ProofCounted
      /\ {Handshake, ProbeEvery, ProbeWithin, Grace, Lag} \subseteq Nat
  BY LinkAssumption DEF LinkInv, LinkTypeOK
<1> USE WhyNames
<1>1. CASE Connect
  BY <1>0, <1>1 DEF Connect, NoPeer, LinkCounted, LinkOfRunner, LossCounted, ProofCounted
<1>2. CASE Opens
  BY <1>0, <1>2 DEF Opens, LinkOf, LinkCounted, LinkOfRunner, LossCounted, ProofCounted
<1>3. CASE ReceiveReady
  <2>0. gen' = gen /\ link.is # "dead"
    BY <1>3 DEF ReceiveReady, AtDaemon
  <2>1. CASE Lose("handshake")
    BY <2>0, <2>1, CountedLost
  <2>2. CASE link' = [link EXCEPT !.is = "ready", !.probe = Started] /\ UNCHANGED <<runner, events, cut>>
    <3>2. Carries(down[gen], <<"ready">>)
      BY <1>0, <1>3, DownTaken DEF ReceiveReady
    <3>1. link'.is = "ready" /\ runner' = runner /\ link.is # "usable"
      BY <1>0, <2>2, <3>2 DEF LinkOf, LinkInv, AnnouncedOnce
    <3> QED
      BY <1>0, <2>0, <3>1 DEF LinkCounted, LinkOfRunner, LossCounted, ProofCounted
  <2> QED
    BY <1>3, <2>1, <2>2 DEF ReceiveReady
<1>4. CASE ReceivePong
  <2>0. gen' = gen /\ link.is # "dead" /\ gen \in Gens
    BY <1>4 DEF ReceivePong, AtDaemon
  <2>1. ASSUME NEW why \in Whys, Lose(why) \/ Fatal(why) PROVE LinkCounted'
    BY <2>0, <2>1, CountedLost
  <2>2. CASE link.is = "ready" /\ ~GraceOver /\ BecomesUsable
    <3>1. /\ link'.is = "usable" /\ link'.open = Off /\ link'.probe = Off /\ link'.proved = Started
          /\ runner'.is = runner.is /\ runner'.everUsable /\ runner'.loss = Off /\ runner'.away = Off
          /\ runner'.after = runner.away
      BY <1>0, <2>0, <2>2, Usable
    <3>2. runner.is = "up" /\ (runner.everUsable => runner.away = runner.loss) /\ runner.loss < Grace
      BY <1>0, <2>0, <2>2 DEF GraceOver, LinkOfRunner, LossCounted, RunnerOf, Clocks, Off
    <3>3. runner.away < Grace
      BY <1>0, <3>2 DEF LossCounted, Off
    <3> QED
      BY <1>0, <2>0, <3>1, <3>2, <3>3 DEF LinkCounted, LinkOfRunner, LossCounted, ProofCounted, Started, Off
  <2>3. CASE link.is = "usable" /\ link' = Proved /\ UNCHANGED <<runner, events, up, cut>>
    <3>1. /\ link'.is = "usable" /\ link'.open = Off /\ link'.probe = Off /\ link'.proved = Started
          /\ runner' = runner
      BY <1>0, <2>3 DEF Proved, LinkOf
    <3> QED
      BY <1>0, <2>0, <2>3, <3>1 DEF LinkCounted, LinkOfRunner, LossCounted, ProofCounted, Started, Off
  <2> QED
    BY <1>4, <2>1, <2>2, <2>3 DEF ReceivePong, FirstPong
<1>5. CASE Probe
  <2>1. /\ link'.is = link.is /\ link'.open = link.open /\ link'.proved = link.proved /\ link'.probe = Started
        /\ link.is = "usable" /\ link.probe = Off /\ runner' = runner /\ gen' = gen
    BY <1>0, <1>5 DEF Probe, LinkOf
  <2> QED
    BY <1>0, <2>1 DEF LinkCounted, LinkOfRunner, LossCounted, ProofCounted, Started, Off
<1>6. CASE TimesOut \/ Disconnects \/ Refused \/ GraceExpires
  <2>1. gen' = gen /\ \E why \in Whys : Lose(why) \/ Fatal(why)
    BY <1>6 DEF TimesOut, Disconnects, Refused, GraceExpires
  <2>2. link.is # "dead" \/ GraceOver
    <3>1. CASE TimesOut
      BY <1>0, <3>1 DEF NoPeer, Off, TimesOut, HandshakeOver, LinkOfRunner, LinkOf, Clocks
    <3> QED
      BY <1>6, <3>1 DEF Disconnects, Refused, AtDaemon, GraceExpires
  <2> QED
    BY <2>1, <2>2, CountedLost
<1>7. CASE SendEvent \/ \E e \in OrdinaryEvents : RetentionExpires(e) \/ \E verdict \in Statuses : ReceiveAck(e, verdict)
  BY <1>7, CountedUnchanged DEF SendEvent, RetentionExpires, ReceiveAck
<1>8. ASSUME NEW g \in Gens,
             \/ ServerHello(g) \/ ServerReady(g) \/ ServerProbe(g) \/ ServerTimesOut(g) \/ ServerCloses(g)
             \/ ServerIngests(g) \/ \E e \in OrdinaryEvents : ServerEvent(g, e)
      PROVE  LinkCounted'
  BY <1>8, ServerTouches, CountedUnchanged
<1>9. CASE CutSocket
  BY <1>9, CountedUnchanged DEF CutSocket
<1>10. CASE LinkTick
  <2>1. /\ link'.is = link.is /\ link'.open = Later(link.open, Handshake + Lag)
        /\ link'.probe = Later(link.probe, ProbeWithin + Lag)
        /\ link'.proved = Later(link.proved, ProbeEvery + ProbeWithin + 3 * Lag)
        /\ runner'.is = runner.is /\ runner'.everUsable = runner.everUsable /\ runner'.after = runner.after
        /\ runner'.loss = Later(runner.loss, Grace + Lag)
        /\ runner'.away = Later(runner.away, Grace + Lag)
        /\ gen' = gen
    BY <1>0, <1>10, TickTypes DEF LinkTick
  <2>2. /\ link.probe < ProbeWithin + Lag
        /\ link.probe = Off => link.proved < ProbeEvery + Lag
        /\ runner.is = "up" => runner.loss < Grace + Lag
    BY <1>10 DEF LinkTick
  <2>3. link.probe \in Clocks /\ link.proved \in Clocks /\ link.open \in Clocks
        /\ runner.loss \in Clocks /\ runner.away \in Clocks
    BY <1>0 DEF LinkOf, RunnerOf
  <2>4. LossCounted'
    BY <1>0, <2>1, <2>2, <2>3, ClocksRun DEF LossCounted, Later, Off
  <2>5. ProofCounted'
    BY <1>0, <2>1, <2>2, <2>3, ClocksRun DEF ProofCounted, Later, Clocks, Off
  <2>6. link.is = "dead" => link' = NoPeer
    <3> SUFFICES ASSUME link = NoPeer PROVE link' = NoPeer
      BY <1>0 DEF LinkOfRunner
    <3>1. {Handshake + Lag, ProbeWithin + Lag, ProbeEvery + ProbeWithin + 3 * Lag} \subseteq Nat
      BY <1>0
    <3>2. /\ link'.is = NoPeer.is /\ link'.open = NoPeer.open /\ link'.probe = NoPeer.probe
          /\ link'.proved = NoPeer.proved
      BY <2>1, <3>1, ClocksRun DEF NoPeer
    <3>3. link' \in LinkOf /\ NoPeer \in LinkOf
      BY <1>0, <1>10, TickTypes, ClocksRun DEF LinkTypeOK, NoPeer, LinkOf
    <3> QED
      BY <3>2, <3>3 DEF LinkOf
  <2> QED
    BY <1>0, <2>1, <2>4, <2>5, <2>6 DEF LinkCounted, LinkOfRunner
<1> QED
  BY <1>1, <1>2, <1>3, <1>4, <1>5, <1>6, <1>7, <1>8, <1>9, <1>10 DEF LinkNext

(* What is announced and answered *)

LEMMA ToldPairs ==
  ASSUME LinkTypeOK, NEW R, NEW g \in Gens, NEW w \in Answers, Pairs(down[g], R),
         \A v \in Answers : Carries(down[g], v) => <<v, w>> \in R
  PROVE  Pairs(Told(g, w)[g], R)
<1>1. down \in [Gens -> Frames(Answers)] /\ down[g] \in Frames(Answers)
  BY DEF LinkTypeOK
<1>2. CASE g \in cut
  BY <1>2 DEF Told
<1>3. CASE g \notin cut
  <2> DEFINE new == Append(down[g], Message(w))
  <2>1. /\ new \in Frames(Answers) /\ Len(new) = Len(down[g]) + 1
        /\ \A i \in DOMAIN down[g] : new[i] = down[g][i]
        /\ new[Len(down[g]) + 1].what = w
    BY <1>1, WrittenOne
  <2>2. Told(g, w)[g] = new
    BY <1>1, <1>3 DEF Told
  <2>3. \A v : Carries(down[g], v) => v \in Answers
    BY <1>1, FrameKinds
  <2>6. \A i \in 1 .. 1 : i = 1
    OBVIOUS
  <2>4. ASSUME NEW v, Carries(down[g], v), NEW i \in 1 .. 1
        PROVE  <<v, new[Len(down[g]) + i].what>> \in R
    BY <2>3, <2>4, <2>6, <2>1
  <2>7. \A i, k \in 1 .. 1 : ~(i < k)
    BY <2>6
  <2> HIDE DEF new
  <2>5. Pairs(new, R)
    BY <1>1, <2>1, <2>4, <2>7, PairsWritten
  <2> QED
    BY <2>2, <2>5
<1> QED
  BY <1>2, <1>3

LEMMA TakenDownPairs ==
  ASSUME LinkTypeOK, NEW R, NEW w, AtDaemon(w), Pairs(down[gen], R)
  PROVE  /\ Pairs(TakenDown[gen], R)
         /\ \A v : Carries(TakenDown[gen], v) => <<w, v>> \in R
BY PairsTaken DEF AtDaemon, Arrives, LinkTypeOK, TakenDown

LEMMA TakenSame ==
  \A e : Taken(e) <=> Contains(ingested, e)
BY DEF Taken, Contains

\* What the server tells a daemon, and when.
Tells(g, w) ==
  /\ w \in Answers /\ down' = Told(g, w)
  /\ w = <<"ready">> => srv[g].is = "initializing"
  /\ w = <<"pong">> => srv'[g].is \in Ends
  /\ \A e \in OrdinaryEvents : w = <<"accepted", e>> => Taken(e)'
  /\ w = <<"refused", "protocol">> =>
       \/ srv[g].is = "active" /\ bound # g
       \/ \E e \in OrdinaryEvents : /\ Carries(up[g], EventName(e)) /\ ~HasRegistry(g)
                                    /\ srv[g].is \in {"initializing", "ready", "active"}

LEMMA ServerTells ==
  ASSUME LinkInv, NEW g \in Gens,
         \/ ServerHello(g) \/ ServerReady(g) \/ ServerProbe(g) \/ ServerTimesOut(g) \/ ServerCloses(g)
         \/ ServerIngests(g) \/ \E e \in OrdinaryEvents : ServerEvent(g, e)
  PROVE  down' = down \/ \E w : Tells(g, w)
<1>0. LinkTypeOK
  BY DEF LinkInv
<1> USE DEF Tells
<1>1. ASSUME NEW why \in {"credential", "expired"}, Refuse(g, why) PROVE Tells(g, <<"refused", why>>)
  BY FrameNames, RequestNames, <1>1 DEF Refuse
<1>2. ASSUME Refuse(g, "protocol"), \/ srv[g].is = "active" /\ bound # g
                   \/ \E e \in OrdinaryEvents : /\ Carries(up[g], EventName(e))
                                                /\ ~HasRegistry(g)
                                                /\ srv[g].is \in {"initializing", "ready", "active"}
      PROVE  Tells(g, <<"refused", "protocol">>)
  BY <1>2, FrameNames, RequestNames DEF Refuse
<1>3. CASE ServerHello(g)
  BY <1>1, <1>3 DEF ServerHello
<1>4. CASE ServerReady(g)
  BY FrameNames, RequestNames, <1>1, <1>4 DEF ServerReady
<1>5. CASE ServerProbe(g)
  <2>1. CASE srv' = [srv EXCEPT ![g] = [is |-> "active", open |-> Off]] /\ down' = Told(g, <<"pong">>)
    <3>1. srv'[g].is \in Ends
      BY <1>0, <2>1 DEF LinkTypeOK, Ends
    <3> QED
      BY <2>1, <3>1, FrameNames, RequestNames
  <2>2. CASE Refuse(g, "expired")
    BY <2>2, <1>1
  <2>3. CASE Refuse(g, "protocol") /\ srv[g].is = "active" /\ bound # g
    BY <2>3, <1>2
  <2> QED
    BY <1>5, <2>1, <2>2, <2>3 DEF ServerProbe
<1>6. CASE ServerTimesOut(g)
  BY <1>1, <1>6 DEF ServerTimesOut
<1>7. CASE ServerCloses(g)
  BY <1>7 DEF ServerCloses, wireVars
<1>8. ASSUME NEW e \in OrdinaryEvents, ServerEvent(g, e) PROVE down' = down \/ \E w : Tells(g, w)
  <2>1. Carries(up[g], EventName(e))
    BY <1>0, <1>8, UpTaken DEF ServerEvent
  <2>2. down' = down \/ (Refuse(g, "protocol") /\ ~HasRegistry(g))
    BY <1>8 DEF ServerEvent, HasRegistry
  <2> QED
    BY <1>8, <1>2, <2>1, <2>2 DEF ServerEvent
<1>9. CASE ServerIngests(g)
  <2>5. PICK e : e = Head(inbox[g])
    OBVIOUS
  <2>1. e \in OrdinaryEvents /\ ingested \in Seq(OrdinaryEvents) /\ Len(ingested) \in Nat
    BY <1>0, <1>9, <2>5, HeadTailProperties DEF LinkTypeOK, ServerIngests
  <2>2. \/ down' = down
        \/ /\ down' = Told(g, <<"accepted", e>>)
           /\ ingested' = IF Contains(ingested, e) THEN ingested ELSE Append(ingested, e)
        \/ down' = Told(g, <<"rejected", e>>)
    BY <1>9, <2>5 DEF ServerIngests, Receipt
  <2>3. ASSUME down' = Told(g, <<"accepted", e>>),
               ingested' = IF Contains(ingested, e) THEN ingested ELSE Append(ingested, e)
        PROVE  Tells(g, <<"accepted", e>>)
    <3>1. Taken(e)'
      <4>1. Contains(ingested, e) => Taken(e)
        BY TakenSame
      <4>2. Append(ingested, e)[Len(ingested) + 1] = e /\ Len(Append(ingested, e)) = Len(ingested) + 1
        BY <2>1
      <4>3. Len(ingested) + 1 \in DOMAIN Append(ingested, e)
        BY <2>1
      <4> QED
        BY <2>3, <4>1, <4>2, <4>3 DEF Taken
    <3>2. \A a \in OrdinaryEvents : <<"accepted", e>> = <<"accepted", a>> => Taken(a)'
      BY <3>1, FrameNames
    <3> QED
      BY <2>1, <2>3, <3>2, FrameNames, RequestNames
  <2>4. ASSUME down' = Told(g, <<"rejected", e>>) PROVE Tells(g, <<"rejected", e>>)
    BY <2>1, <2>4, FrameNames, RequestNames
  <2> QED
    BY <2>2, <2>3, <2>4
<1> QED
  BY <1>3, <1>4, <1>5, <1>6, <1>7, <1>8, <1>9

\* What the daemon writes, and when.
LEMMA DaemonWrites ==
  ASSUME LinkInv,
         \/ Opens \/ ReceiveReady \/ ReceivePong \/ Probe \/ TimesOut
         \/ Disconnects \/ Refused \/ GraceExpires \/ SendEvent
         \/ \E e \in OrdinaryEvents : RetentionExpires(e) \/ \E verdict \in Statuses : ReceiveAck(e, verdict)
  PROVE  \A e \in OrdinaryEvents : (gen \in Gens /\ Carries(up'[gen], EventName(e))) =>
           \/ Carries(up[gen], EventName(e))
           \/ link'.is = "usable" /\ srv[gen].is \in Ends /\ e \in DOMAIN events'
<1>0. LinkTypeOK
  BY DEF LinkInv
<1> SUFFICES ASSUME NEW e \in OrdinaryEvents, gen \in Gens, Carries(up'[gen], EventName(e)),
                    ~Carries(up[gen], EventName(e))
             PROVE  link'.is = "usable" /\ srv[gen].is \in Ends /\ e \in DOMAIN events'
  OBVIOUS
<1>1. \A w \in {<<"hello">>, <<"probe">>} : up' # Wrote(<<w>>)
  BY <1>0, WroteOne, FrameNames, RequestNames
<1>2. up' # up
  OBVIOUS
<1>3. SendEvent \/ (ReceivePong /\ link.is = "ready" /\ BecomesUsable)
  BY <1>1, <1>2 DEF Opens, ReceiveReady, ReceivePong, Probe, TimesOut, Disconnects, Refused, GraceExpires,
         RetentionExpires, ReceiveAck, FirstPong, wireVars
<1>4. CASE SendEvent
  <2>1. PICK ev : /\ events' = Append(events, ev) /\ link' = link /\ Len(events) < LastEvent
                  /\ up' = IF link.is = "usable" THEN Wrote(<<EventName(Len(events) + 1)>>) ELSE up
    BY <1>4 DEF SendEvent, Enqueue
  <2>2. events \in Seq(EventOf) /\ Len(events) \in Nat /\ LastEvent \in Nat
    BY <1>0, LinkAssumption DEF LinkTypeOK
  <2>3. link.is = "usable" /\ up' = Wrote(<<EventName(Len(events) + 1)>>)
    BY <1>2, <2>1
  <2>4. EventName(Len(events) + 1) \in Requests
    BY <2>1, <2>2, RequestNames DEF OrdinaryEvents
  <2>5. EventName(e) = EventName(Len(events) + 1)
    BY <1>0, <2>3, <2>4, WroteOne
  <2>6. e = Len(events) + 1
    BY <2>5, FrameNames
  <2>7. e \in DOMAIN events'
    BY <2>1, <2>2, <2>6
  <2> QED
    BY <2>1, <2>3, <2>7 DEF LinkInv, Answered
<1>5. CASE ReceivePong /\ link.is = "ready" /\ BecomesUsable
  <2>1. Carries(down[gen], <<"pong">>)
    BY <1>0, <1>5, DownTaken DEF ReceivePong
  <2>2. srv[gen].is \in Ends
    BY <2>1 DEF LinkInv, Answered
  <2>3. /\ link'.is = "usable" /\ Settled(events')
        /\ \E ws \in Seq(Requests) :
              /\ up' = Wrote(ws) /\ Len(ws) = Len(Pending)
              /\ \A i \in DOMAIN ws : ws[i] = EventName(Pending[i])
    BY <1>0, <1>5, Usable
  <2>4. PICK ws \in Seq(Requests) :
              /\ up' = Wrote(ws) /\ Len(ws) = Len(Pending)
              /\ \A i \in DOMAIN ws : ws[i] = EventName(Pending[i])
    BY <2>3
  <2>5. PICK i \in DOMAIN ws : ws[i] = EventName(e)
    BY <1>0, <2>4, WroteUp
  <2>6. Pending \in Seq(OrdinaryEvents) /\ \A a : (\E k \in DOMAIN Pending : Pending[k] = a) <=>
                                                    a \in OrdinaryEvents /\ IsPending(a) /\ ~Overdue(a)
    BY <1>0, PendingSorted
  <2>7. i \in DOMAIN Pending /\ Pending[i] = e
    BY <2>6, <2>4, <2>5, FrameNames
  <2>8. e \in DOMAIN events
    BY <2>6, <2>7 DEF IsPending
  <2>9. DOMAIN events' = DOMAIN events
    BY <1>0, <2>3 DEF Settled, LinkTypeOK
  <2> QED
    BY <2>2, <2>3, <2>8, <2>9
<1> QED
  BY <1>3, <1>4, <1>5

LEMMA AnnouncedKept ==
  ASSUME LinkInv, LinkNext
  PROVE  AnnouncedOnce'
<1>0. LinkTypeOK /\ AnnouncedOnce /\ down \in [Gens -> Frames(Answers)]
  BY DEF LinkInv, LinkTypeOK
<1>1. CASE Connect
  BY <1>0, <1>1 DEF AnnouncedOnce, Connect, NoPeer, wireVars
<1>2. CASE \/ Opens \/ ReceiveReady \/ ReceivePong \/ Probe \/ TimesOut
           \/ Disconnects \/ Refused \/ GraceExpires \/ SendEvent
           \/ \E e \in OrdinaryEvents : RetentionExpires(e) \/ \E verdict \in Statuses : ReceiveAck(e, verdict)
  <2>1. /\ gen' = gen /\ \A g \in Gens \ {gen} : down'[g] = down[g]
        /\ \A g \in Gens : \A w : Carries(down'[g], w) => Carries(down[g], w)
    BY <1>2, DaemonTouches
  <2>2. down' = down \/ (down' = TakenDown /\ gen \in Gens /\ \E w : AtDaemon(w))
    BY <1>2 DEF Opens, ReceiveReady, ReceivePong, Probe, TimesOut, Disconnects, Refused, GraceExpires,
         SendEvent, Enqueue, RetentionExpires, ReceiveAck, wireVars, AtDaemon
  <2>3. \A g \in Gens : Pairs(down'[g], ReadyFirst)
    BY <1>0, <2>2, TakenDownPairs, <2>1 DEF AnnouncedOnce
  <2>4. ASSUME link'.is = "usable", Carries(down'[gen], <<"ready">>) PROVE FALSE
    <3>1. gen \in Gens
      <4>1. runner \in RunnerOf /\ link \in LinkOf /\ gen \in 0 .. LastGen /\ LastGen \in Nat
        BY <1>0, LinkAssumption DEF LinkTypeOK
      <4>2. LinkOfRunner' /\ gen' = gen
        BY CountedKept, <2>1 DEF LinkCounted
      <4> QED
        BY <4>1, <4>2, <2>4 DEF LinkOfRunner, Gens
    <3>2. CASE link.is = "usable"
      BY <1>0, <2>1, <2>4, <3>1, <3>2 DEF AnnouncedOnce
    <3>3. CASE link.is # "usable"
      <4>1. ReceivePong
        <5>1. link \in LinkOf /\ \A why \in Whys : Lose(why) \/ Fatal(why) => link'.is = "dead"
          BY <1>0, Lost DEF LinkTypeOK
        <5> QED
          BY <1>2, <2>4, <3>3, <5>1, WhyNames
             DEF Opens, ReceiveReady, Probe, TimesOut, Disconnects, Refused, GraceExpires,
                 SendEvent, Enqueue, RetentionExpires, ReceiveAck, LinkOf
      <4>2. AtDaemon(<<"pong">>) /\ down' = TakenDown
        BY <4>1 DEF ReceivePong
      <4>3. Pairs(down[gen], ReadyFirst)
        BY <1>0, <3>1 DEF AnnouncedOnce
      <4>4. <<<<"pong">>, <<"ready">>>> \in ReadyFirst
        BY <1>0, <2>4, <4>2, <4>3, TakenDownPairs
      <4> QED
        BY <4>4 DEF ReadyFirst
    <3> QED
      BY <3>2, <3>3
  <2> QED
    BY <2>1, <2>3, <2>4 DEF AnnouncedOnce
<1>3. ASSUME NEW g \in Gens,
             \/ ServerHello(g) \/ ServerReady(g) \/ ServerProbe(g) \/ ServerTimesOut(g) \/ ServerCloses(g)
             \/ ServerIngests(g) \/ \E e \in OrdinaryEvents : ServerEvent(g, e)
      PROVE  AnnouncedOnce'
  <2>1. <<gen, link>>' = <<gen, link>> /\ \A h \in Gens \ {g} : down'[h] = down[h]
    BY <1>3, ServerTouches
  <2>2. CASE down' = down
    BY <1>0, <2>1, <2>2 DEF AnnouncedOnce
  <2>3. ASSUME NEW w, Tells(g, w) PROVE AnnouncedOnce'
    <3>1. w \in Answers /\ down' = Told(g, w) /\ (w = <<"ready">> => srv[g].is = "initializing")
      BY <2>3 DEF Tells
    <3>2. w = <<"ready">> => ~Carries(down[g], <<"pong">>) /\ ~(gen = g /\ link.is = "usable")
      BY <3>1 DEF LinkInv, Answered, Ends
    <3>3. \A v \in Answers : Carries(down[g], v) => <<v, w>> \in ReadyFirst
      BY <3>1, <3>2 DEF ReadyFirst
    <3>4. Pairs(down'[g], ReadyFirst)
      BY <1>0, <3>1, <3>3, ToldPairs DEF AnnouncedOnce
    <3>5. \A h \in Gens : \A v : Carries(down'[h], v) => Carries(down[h], v) \/ (h = g /\ v = w)
      BY <1>0, <3>1, ToldDown
    <3>6. link.is = "usable" => gen \in Gens
      BY <1>0, LinkAssumption DEF LinkInv, LinkOfRunner, LinkTypeOK, Gens
    <3> QED
      BY <1>0, <2>1, <3>2, <3>4, <3>5, <3>6 DEF AnnouncedOnce
  <2> QED
    BY <1>3, <2>2, <2>3, ServerTells
<1>4. CASE CutSocket
  <2>1. PICK k \in 0 .. Len(down[gen]) : down' = [down EXCEPT ![gen] = SubSeq(@, 1, k)]
    BY <1>4 DEF CutSocket
  <2>2. gen \in Gens /\ down[gen] \in Frames(Answers) /\ gen' = gen /\ link' = link
    BY <1>0, <1>4 DEF CutSocket
  <2> DEFINE new == SubSeq(down[gen], 1, k)
  <2>3. /\ new \in Frames(Answers) /\ Len(new) = k /\ \A i \in 1 .. k : new[i] = down[gen][i]
        /\ \A w : Carries(new, w) => Carries(down[gen], w)
    BY <2>2, CutOff
  <2>4. k <= Len(down[gen]) /\ \A i \in DOMAIN new : new[i].what = down[gen][i].what
    BY <2>2, <2>3 DEF Frames
  <2>5. down'[gen] = new /\ \A h \in Gens \ {gen} : down'[h] = down[h]
    BY <1>0, <2>1, <2>2
  <2> HIDE DEF new
  <2>6. Pairs(new, ReadyFirst)
    BY <1>0, <2>2, <2>3, <2>4, PairsLeft DEF AnnouncedOnce
  <2> QED
    BY <1>0, <2>2, <2>3, <2>5, <2>6 DEF AnnouncedOnce
<1>5. CASE LinkTick
  <2>1. /\ LinkTypeOK' /\ link'.is = link.is
        /\ \A g \in Gens : /\ Len(down'[g]) = Len(down[g])
                           /\ \A w : Carries(down'[g], w) <=> Carries(down[g], w)
    BY <1>0, <1>5, TickTypes
  <2>2. gen' = gen /\ down' = Aged(down) /\ down' \in [Gens -> Frames(Answers)]
    BY <1>5, <2>1 DEF LinkTick, LinkTypeOK
  <2>3. \A g \in Gens : Pairs(down'[g], ReadyFirst)
    <3> SUFFICES ASSUME NEW g \in Gens PROVE Pairs(down'[g], ReadyFirst)
      OBVIOUS
    <3>1. /\ \A i \in DOMAIN down[g] : down'[g][i].what = down[g][i].what
          /\ Len(down'[g]) <= Len(down[g]) /\ DOMAIN down'[g] = DOMAIN down[g]
      BY <1>0, <2>1, <2>2, AgedSame DEF Frames
    <3> QED
      BY <1>0, <2>2, <3>1, PairsLeft DEF AnnouncedOnce
  <2>4. link.is = "usable" => gen \in Gens
    BY <1>0, LinkAssumption DEF LinkInv, LinkOfRunner, LinkTypeOK, Gens
  <2> QED
    BY <1>0, <2>1, <2>2, <2>3, <2>4 DEF AnnouncedOnce
<1> QED
  BY <1>1, <1>2, <1>3, <1>4, <1>5 DEF LinkNext

LEMMA GenInUse ==
  ASSUME LinkInv, link.is # "dead"
  PROVE  gen \in Gens
BY LinkAssumption DEF LinkInv, LinkOfRunner, LinkTypeOK, Gens

\* How the daemon's end of the session becomes what it is.
LEMMA LinkMoves ==
  ASSUME LinkInv,
         \/ Opens \/ ReceiveReady \/ ReceivePong \/ Probe \/ TimesOut
         \/ Disconnects \/ Refused \/ GraceExpires \/ SendEvent
         \/ \E e \in OrdinaryEvents : RetentionExpires(e) \/ \E verdict \in Statuses : ReceiveAck(e, verdict)
  PROVE  /\ link'.is = "usable" /\ link.is # "usable" =>
              link.is = "ready" /\ BecomesUsable /\ Carries(down[gen], <<"pong">>)
         /\ link'.is \in {"connecting", "opened", "ready"} => link.is \in {"connecting", "opened", "ready"}
<1>0. LinkTypeOK /\ link \in LinkOf
  BY DEF LinkInv, LinkTypeOK
<1>1. \A why \in Whys : Lose(why) \/ Fatal(why) => link'.is = "dead"
  BY <1>0, Lost
<1>2. CASE Opens
  BY <1>0, <1>2 DEF Opens, LinkOf
<1>3. CASE ReceiveReady
  BY <1>0, <1>3, DownTaken, <1>1, WhyNames DEF ReceiveReady, LinkInv, AnnouncedOnce, LinkOf
<1>4. CASE ReceivePong
  BY <1>0, <1>4, DownTaken, Usable, <1>1, WhyNames DEF ReceivePong, Proved, LinkOf, FirstPong
<1>5. CASE Probe
  BY <1>0, <1>5 DEF Probe, LinkOf
<1>6. CASE TimesOut \/ Disconnects \/ Refused \/ GraceExpires
  BY <1>1, <1>6, WhyNames DEF TimesOut, Disconnects, Refused, GraceExpires
<1>7. CASE SendEvent \/ \E e \in OrdinaryEvents : RetentionExpires(e) \/ \E verdict \in Statuses : ReceiveAck(e, verdict)
  BY <1>7 DEF SendEvent, RetentionExpires, ReceiveAck
<1> QED
  BY <1>2, <1>3, <1>4, <1>5, <1>6, <1>7

LEMMA CutLeaves ==
  ASSUME LinkInv, CutSocket
  PROVE  /\ gen \in Gens /\ <<gen, link, runner, events, linkServerVars>>' = <<gen, link, runner, events, linkServerVars>>
         /\ cut' = cut \cup {gen}
         /\ \A g \in Gens \ {gen} : up'[g] = up[g] /\ down'[g] = down[g]
         /\ Len(up'[gen]) <= Len(up[gen]) /\ \A i \in DOMAIN up'[gen] : i \in DOMAIN up[gen] /\ up'[gen][i] = up[gen][i]
         /\ \A g \in Gens : \A w : Carries(up'[g], w) => Carries(up[g], w)
         /\ \A g \in Gens : \A w : Carries(down'[g], w) => Carries(down[g], w)
<1>0. LinkTypeOK /\ up \in [Gens -> Frames(Requests)] /\ down \in [Gens -> Frames(Answers)]
  BY DEF LinkInv, LinkTypeOK
<1>1. PICK i \in 0 .. Len(up[gen]), k \in 0 .. Len(down[gen]) :
        /\ up' = [up EXCEPT ![gen] = SubSeq(@, 1, i)]
        /\ down' = [down EXCEPT ![gen] = SubSeq(@, 1, k)]
  BY DEF CutSocket
<1>2. gen \in Gens /\ up[gen] \in Frames(Requests) /\ down[gen] \in Frames(Answers)
  BY <1>0 DEF CutSocket
<1> DEFINE newUp == SubSeq(up[gen], 1, i)
           newDown == SubSeq(down[gen], 1, k)
<1>3. /\ newUp \in Frames(Requests) /\ Len(newUp) = i /\ \A n \in 1 .. i : newUp[n] = up[gen][n]
      /\ \A w : Carries(newUp, w) => Carries(up[gen], w)
  BY <1>2, CutOff
<1>4. \A w : Carries(newDown, w) => Carries(down[gen], w)
  BY <1>2, CutOff
<1>5. /\ up'[gen] = newUp /\ down'[gen] = newDown
      /\ \A g \in Gens \ {gen} : up'[g] = up[g] /\ down'[g] = down[g]
  BY <1>0, <1>1, <1>2
<1> HIDE DEF newUp, newDown
<1>6. /\ Len(newUp) <= Len(up[gen])
      /\ \A n \in DOMAIN newUp : n \in DOMAIN up[gen] /\ newUp[n] = up[gen][n]
  BY <1>2, <1>3 DEF Frames
<1>7. /\ <<gen, link, runner, events, linkServerVars>>' = <<gen, link, runner, events, linkServerVars>>
      /\ cut' = cut \cup {gen}
  BY DEF CutSocket
<1> QED
  BY <1>2, <1>3, <1>4, <1>5, <1>6, <1>7

\* What a binding has queued came over its socket.
LEMMA Queues ==
  ASSUME LinkInv, NEW g \in Gens,
         \/ ServerHello(g) \/ ServerReady(g) \/ ServerProbe(g) \/ ServerTimesOut(g) \/ ServerCloses(g)
         \/ ServerIngests(g) \/ \E e \in OrdinaryEvents : ServerEvent(g, e)
  PROVE  /\ \A h \in Gens : inbox'[h] # <<>> => inbox[h] # <<>> \/ srv[h].is \in Ends
         /\ \A h \in Gens : (\A i \in DOMAIN inbox[h] : inbox[h][i] \in DOMAIN events) =>
                              \A i \in DOMAIN inbox'[h] : inbox'[h][i] \in DOMAIN events
<1>0. LinkTypeOK /\ inbox \in [Gens -> Seq(OrdinaryEvents)] /\ inbox[g] \in Seq(OrdinaryEvents)
  BY DEF LinkInv, LinkTypeOK
<1>1. CASE inbox' = inbox
  BY <1>1
<1>2. CASE ServerIngests(g)
  <2>1. inbox' = [inbox EXCEPT ![g] = Tail(inbox[g])] /\ inbox[g] # <<>>
    BY <1>2 DEF ServerIngests
  <2>2. \A i \in DOMAIN Tail(inbox[g]) : i + 1 \in DOMAIN inbox[g] /\ Tail(inbox[g])[i] = inbox[g][i + 1]
    BY <1>0, <2>1
  <2> QED
    BY <1>0, <2>1, <2>2
<1>3. ASSUME NEW e \in OrdinaryEvents, ServerEvent(g, e), inbox' # inbox
      PROVE  inbox' = [inbox EXCEPT ![g] = Append(inbox[g], e)] /\ srv[g].is \in Ends /\ e \in DOMAIN events
  <2>1. Carries(up[g], EventName(e))
    BY <1>0, <1>3, UpTaken DEF ServerEvent
  <2> QED
    BY <1>3, <2>1 DEF ServerEvent, Ends, LinkInv, TakenIn
<1>4. ASSUME NEW e \in OrdinaryEvents, ServerEvent(g, e), inbox' # inbox
      PROVE  /\ \A h \in Gens : inbox'[h] # <<>> => inbox[h] # <<>> \/ srv[h].is \in Ends
             /\ \A h \in Gens : (\A i \in DOMAIN inbox[h] : inbox[h][i] \in DOMAIN events) =>
                                  \A i \in DOMAIN inbox'[h] : inbox'[h][i] \in DOMAIN events
  <2> DEFINE new == Append(inbox[g], e)
  <2>1. \A i \in DOMAIN new : (i \in DOMAIN inbox[g] /\ new[i] = inbox[g][i]) \/ new[i] = e
    BY <1>0
  <2>2. \A h \in Gens : inbox'[h] = IF h = g THEN new ELSE inbox[h]
    BY <1>0, <1>3, <1>4
  <2> HIDE DEF new
  <2> QED
    BY <2>1, <2>2, <1>3, <1>4
<1> QED
  BY <1>1, <1>2, <1>4 DEF ServerHello, ServerReady, ServerProbe, ServerTimesOut, ServerCloses

LEMMA AnsweredKept ==
  ASSUME LinkInv, LinkNext
  PROVE  Answered'
<1>0. LinkTypeOK /\ Answered /\ gen \in 0 .. LastGen /\ LastGen \in Nat
  BY LinkAssumption DEF LinkInv, LinkTypeOK
<1>1. CASE Connect
  <2>1. gen' = gen + 1 /\ link'.is = "connecting" /\ UNCHANGED <<wireVars, linkServerVars>> /\ gen' \in Gens /\ gen' > gen
    BY <1>0, <1>1 DEF Connect, NoPeer, Gens
  <2>2. up[gen'] = <<>>
    BY <2>1 DEF LinkInv, Unopened
  <2>3. \A w : ~Carries(up[gen'], w)
    BY <2>2 DEF Carries
  <2> QED
    BY <1>0, <2>1, <2>3 DEF Answered, wireVars, linkServerVars
<1>2. CASE \/ Opens \/ ReceiveReady \/ ReceivePong \/ Probe \/ TimesOut
           \/ Disconnects \/ Refused \/ GraceExpires \/ SendEvent
           \/ \E e \in OrdinaryEvents : RetentionExpires(e) \/ \E verdict \in Statuses : ReceiveAck(e, verdict)
  <2>1. /\ gen' = gen /\ srv' = srv /\ inbox' = inbox
        /\ \A g \in Gens \ {gen} : up'[g] = up[g]
        /\ \A g \in Gens : \A w : Carries(down'[g], w) => Carries(down[g], w)
    BY <1>2, DaemonTouches DEF linkServerVars
  <2>2. \A e \in OrdinaryEvents : (gen \in Gens /\ Carries(up'[gen], EventName(e))) =>
           \/ Carries(up[gen], EventName(e))
           \/ link'.is = "usable" /\ srv[gen].is \in Ends
    BY <1>2, DaemonWrites
  <2>3. /\ link'.is = "usable" /\ link.is # "usable" => Carries(down[gen], <<"pong">>) /\ link.is = "ready"
        /\ link'.is \in {"connecting", "opened", "ready"} => link.is \in {"connecting", "opened", "ready"}
    BY <1>2, LinkMoves
  <2>4. link'.is = "usable" => srv[gen].is \in Ends
    BY <1>0, <2>3, GenInUse DEF Answered
  <2>5. ASSUME link'.is \in {"connecting", "opened", "ready"}, NEW e \in OrdinaryEvents
        PROVE  ~Carries(up'[gen], EventName(e))
    BY <1>0, <2>2, <2>3, <2>5, GenInUse DEF Answered
  <2>6. ASSUME NEW g \in Gens, NEW e \in OrdinaryEvents, Carries(up'[g], EventName(e)) PROVE srv[g].is \in Ends
    BY <1>0, <2>1, <2>2, <2>6 DEF Answered
  <2> QED
    BY <1>0, <2>1, <2>4, <2>5, <2>6 DEF Answered
<1>3. ASSUME NEW g \in Gens,
             \/ ServerHello(g) \/ ServerReady(g) \/ ServerProbe(g) \/ ServerTimesOut(g) \/ ServerCloses(g)
             \/ ServerIngests(g) \/ \E e \in OrdinaryEvents : ServerEvent(g, e)
      PROVE  Answered'
  <2>1. /\ gen' = gen /\ link' = link
        /\ \A h \in Gens \ {g} : up'[h] = up[h] /\ down'[h] = down[h] /\ srv'[h] = srv[h]
        /\ \A w : Carries(up'[g], w) => Carries(up[g], w)
        /\ srv[g].is \in Ends => srv'[g].is \in Ends
    BY <1>3, ServerTouches
  <2>2. Carries(down'[g], <<"pong">>) => Carries(down[g], <<"pong">>) \/ srv'[g].is \in Ends
    <3>1. CASE down' = down
      BY <3>1
    <3>2. ASSUME NEW w, Tells(g, w), Carries(down'[g], <<"pong">>)
          PROVE  Carries(down[g], <<"pong">>) \/ srv'[g].is \in Ends
      BY <3>2, <1>0, ToldDown DEF Tells
    <3> QED
      BY <1>3, <3>1, <3>2, ServerTells
  <2>3. \A h \in Gens : srv[h].is \in Ends => srv'[h].is \in Ends
    BY <2>1
  <2>4. \A h \in Gens : \A w : Carries(up'[h], w) => Carries(up[h], w)
    BY <2>1
  <2>5. \A h \in Gens : Carries(down'[h], <<"pong">>) => srv'[h].is \in Ends
    BY <1>0, <2>1, <2>2, <2>3 DEF Answered
  <2>6. link.is # "dead" => gen \in Gens
    BY GenInUse
  <2>7. \A h \in Gens : inbox'[h] # <<>> => srv'[h].is \in Ends
    BY <1>0, <1>3, <2>3, Queues DEF Answered
  <2> QED
    BY <1>0, <2>1, <2>3, <2>4, <2>5, <2>6, <2>7 DEF Answered
<1>4. CASE CutSocket
  BY <1>0, <1>4, CutLeaves DEF Answered, linkServerVars
<1>5. CASE LinkTick
  BY <1>0, <1>5, TickTypes, GenInUse DEF LinkTick, Answered
<1> QED
  BY <1>1, <1>2, <1>3, <1>4, <1>5 DEF LinkNext

(* What came in *)

LEMMA NoneDelivered ==
  ASSUME LinkTypeOK, NEW evs \in {events, Flushed, Unsent, FailedEvents}
  PROVE  /\ DOMAIN evs = DOMAIN events
         /\ \A e \in DOMAIN events : evs[e].is # events[e].is =>
              events[e].is = "pending" /\ evs[e].is = "failed"
<1>1. \A e \in DOMAIN events : events[e] \in EventOf
  BY DEF LinkTypeOK
<1>2. CASE evs = events
  BY <1>2
<1>3. CASE evs = Flushed
  BY <1>1, <1>3 DEF Flushed, EventOf
<1>4. CASE evs = Unsent
  BY <1>1, <1>4 DEF Unsent, EventOf
<1>5. CASE evs = FailedEvents
  BY <1>1, <1>5 DEF FailedEvents, EventOf
<1> QED
  BY <1>2, <1>3, <1>4, <1>5

\* Events settle once, and what is delivered was taken in.
Settles ==
  /\ DOMAIN events' = DOMAIN events /\ Len(events') = Len(events)
  /\ \A e \in DOMAIN events : events'[e].is # events[e].is =>
       /\ events[e].is = "pending"
       /\ events'[e].is = "failed" \/ (events'[e].is = "delivered" /\ Taken(e))

Sends ==
  /\ Len(events) \in Nat /\ Len(events') = Len(events) + 1
  /\ DOMAIN events = 1 .. Len(events) /\ DOMAIN events' = 1 .. Len(events) + 1
  /\ \A e \in DOMAIN events : events'[e] = events[e] /\ events[e].is # "pending"
  /\ events'[Len(events) + 1].is = "pending"

LEMMA SameLength ==
  ASSUME LinkInv, LinkNext, DOMAIN events' = DOMAIN events
  PROVE  Len(events') = Len(events)
<1>1. events \in Seq(EventOf) /\ events' \in Seq(EventOf)
  BY LinkTypesKept DEF LinkInv, LinkTypeOK
<1> QED
  BY <1>1

LEMMA DaemonSettles ==
  ASSUME LinkInv,
         \/ Opens \/ ReceiveReady \/ ReceivePong \/ Probe \/ TimesOut
         \/ Disconnects \/ Refused \/ GraceExpires
         \/ \E e \in OrdinaryEvents : RetentionExpires(e) \/ \E verdict \in Statuses : ReceiveAck(e, verdict)
  PROVE  Settles
<1>0. LinkTypeOK /\ \A e \in DOMAIN events : events[e] \in EventOf
  BY DEF LinkInv, LinkTypeOK
<1>7. DOMAIN events' = DOMAIN events => Len(events') = Len(events)
  BY SameLength DEF LinkNext
<1>1. events' \in {events, Flushed, Unsent, FailedEvents} => Settles
  BY <1>0, <1>7, NoneDelivered DEF Settles
<1>2. \A why : Lose(why) \/ Fatal(why) => events' \in {Unsent, FailedEvents}
  BY DEF Lose, Fatal
<1>3. CASE Opens \/ ReceiveReady \/ Probe \/ TimesOut \/ Disconnects \/ Refused \/ GraceExpires
  BY <1>1, <1>2, <1>3 DEF Opens, ReceiveReady, Probe, TimesOut, Disconnects, Refused, GraceExpires
<1>4. CASE ReceivePong
  BY <1>1, <1>2, <1>4 DEF ReceivePong, FirstPong, BecomesUsable
<1>5. ASSUME NEW e \in OrdinaryEvents, RetentionExpires(e) PROVE Settles
  BY <1>0, <1>5, <1>7 DEF RetentionExpires, Settles, EventOf
<1>6. ASSUME NEW e \in OrdinaryEvents, NEW verdict \in Statuses, ReceiveAck(e, verdict) PROVE Settles
  <2>1. Carries(down[gen], <<verdict, e>>) /\ gen \in Gens
    BY <1>0, <1>6, DownTaken DEF ReceiveAck
  <2>2. verdict = "accepted" => Taken(e)
    BY <2>1 DEF LinkInv, TakenIn
  <2>3. CASE events' = events
    BY <2>3, <1>7 DEF Settles
  <2>4. CASE /\ IsPending(e)
             /\ events' = [events EXCEPT ![e].is =
                             IF verdict = "accepted" /\ ~Overdue(e) THEN "delivered" ELSE "failed"]
    BY <1>0, <1>7, <2>2, <2>4 DEF Settles, EventOf, IsPending
  <2> QED
    BY <1>6, <2>3, <2>4 DEF ReceiveAck
<1> QED
  BY <1>3, <1>4, <1>5, <1>6

LEMMA SendSends ==
  ASSUME LinkInv, SendEvent
  PROVE  Sends
<1>1. events \in Seq(EventOf) /\ Len(events) \in Nat /\ LastEvent \in Nat /\ DOMAIN events = 1 .. Len(events)
      /\ Len(events) <= LastEvent
  BY LinkAssumption DEF LinkInv, LinkTypeOK
<1>2. PICK ev : events' = Append(events, ev) /\ ev.is = "pending"
  BY DEF SendEvent, Enqueue
<1>3. DOMAIN events' = 1 .. Len(events) + 1 /\ events'[Len(events) + 1] = ev
      /\ Len(events') = Len(events) + 1 /\ \A e \in DOMAIN events : events'[e] = events[e]
  BY <1>1, <1>2
<1>4. \A e \in DOMAIN events : events[e].is # "pending"
  BY <1>1 DEF SendEvent, IsPending, OrdinaryEvents
<1> QED
  BY <1>1, <1>2, <1>3, <1>4 DEF Sends

LEMMA TickSettles ==
  ASSUME LinkInv, LinkTick
  PROVE  Settles
<1>1. \A e \in DOMAIN events : events[e] \in EventOf
  BY DEF LinkInv, LinkTypeOK
<1>2. events' = [e \in DOMAIN events |-> [events[e] EXCEPT !.kept = Later(@, RetainFor)]]
  BY DEF LinkTick
<1>3. \A e \in DOMAIN events : events'[e].is = events[e].is
  BY <1>1, <1>2 DEF EventOf
<1>4. Len(events') = Len(events)
  BY <1>2, SameLength DEF LinkNext
<1> QED
  BY <1>2, <1>3, <1>4 DEF Settles

\* Events that were taken in are events.
LEMMA TakenKnown ==
  ASSUME LinkInv
  PROVE  /\ ingested \in Seq(OrdinaryEvents)
         /\ \A i \in DOMAIN ingested : ingested[i] \in DOMAIN events /\ ingested[i] \in OrdinaryEvents
         /\ \A i \in DOMAIN ingested : 1 .. ingested[i] \subseteq DOMAIN events
<1>1. ingested \in Seq(OrdinaryEvents) /\ Len(events) \in Nat /\ DOMAIN events = 1 .. Len(events)
      /\ OrdinaryEvents \subseteq Nat
  BY LinkAssumption DEF LinkInv, LinkTypeOK, OrdinaryEvents
<1>2. ASSUME NEW i \in DOMAIN ingested PROVE ingested[i] \in DOMAIN events /\ ingested[i] \in OrdinaryEvents
  <2>1. ingested[i] \in OrdinaryEvents
    BY <1>1
  <2> QED
    BY <2>1 DEF LinkInv, TakenIn, Taken
<1>3. ASSUME NEW i \in DOMAIN ingested, NEW e \in 1 .. ingested[i] PROVE e \in DOMAIN events
  BY <1>1, <1>2
<1> QED
  BY <1>1, <1>2, <1>3

\* Only the last event can still be pending.
InSeries == \A e \in DOMAIN events : events[e].is = "pending" => e = Len(events)

\* Nothing new has come in.
LEMMA OrderStays ==
  ASSUME LinkInv, ingested' = ingested, Settles \/ Sends \/ events' = events
  PROVE  /\ OrdinaryInOrder' /\ InSeries'
         /\ \A e : Taken(e)' <=> Taken(e)
         /\ DOMAIN events \subseteq DOMAIN events'
         /\ \A e \in OrdinaryEvents : Taken(e)' => e \in DOMAIN events'
<1>0. /\ OrdinaryInOrder /\ InSeries /\ \A e \in OrdinaryEvents : Taken(e) => e \in DOMAIN events
      /\ Len(events) \in Nat /\ DOMAIN events = 1 .. Len(events)
  BY DEF LinkInv, LinkTypeOK, TakenIn, InSeries
<1>1. \A e : (Taken(e)' <=> Taken(e)) /\ (Contains(ingested, e) <=> Taken(e))
  BY TakenSame DEF Taken
<1>2. /\ DOMAIN events \subseteq DOMAIN events'
      /\ \A e \in DOMAIN events : events[e].is = "failed" => events'[e].is = "failed"
  BY <1>0 DEF Settles, Sends
<1>3. InSeries'
  BY <1>0 DEF InSeries, Settles, Sends
<1>4. \A e \in DOMAIN events' : events'[e].is = "delivered" => Contains(ingested', e)
  BY <1>0, <1>1 DEF OrdinaryInOrder, Settles, Sends
<1>5. ASSUME NEW i \in DOMAIN ingested', NEW e \in 1 .. ingested'[i]
      PROVE  Contains(SubSeq(ingested', 1, i), e) \/ events'[e].is = "failed"
  <2>1. i \in DOMAIN ingested /\ e \in 1 .. ingested[i] /\ e \in DOMAIN events
    BY <1>5, TakenKnown
  <2>2. Contains(SubSeq(ingested, 1, i), e) \/ events[e].is = "failed"
    BY <1>0, <2>1 DEF OrdinaryInOrder
  <2> QED
    BY <1>2, <2>1, <2>2
<1> QED
  BY <1>0, <1>1, <1>2, <1>3, <1>4, <1>5 DEF OrdinaryInOrder

LEMMA PrefixHas ==
  ASSUME NEW S, NEW s \in Seq(S), NEW i \in 0 .. Len(s)
  PROVE  \A e : Contains(SubSeq(s, 1, i), e) <=> \E k \in 1 .. i : s[k] = e
<1>1. Len(SubSeq(s, 1, i)) = i /\ \A k \in 1 .. i : SubSeq(s, 1, i)[k] = s[k]
  BY SubSeqProperties
<1> QED
  BY <1>1 DEF Contains

\* A binding takes an event in, or not: what was sent before it is settled.
LEMMA Ingests ==
  ASSUME LinkInv, NEW g \in Gens, ServerIngests(g)
  PROVE  /\ OrdinaryInOrder' /\ \A a : Taken(a) => Taken(a)'
         /\ \A a \in OrdinaryEvents : Taken(a)' => a \in DOMAIN events
<1> DEFINE e == Head(inbox[g])
<1>0. /\ OrdinaryInOrder /\ \A a \in OrdinaryEvents : Taken(a) => a \in DOMAIN events
      /\ ingested \in Seq(OrdinaryEvents) /\ OrdinaryEvents \subseteq Nat
      /\ events \in Seq(EventOf) /\ inbox[g] \in Seq(OrdinaryEvents)
  BY LinkAssumption DEF LinkInv, LinkTypeOK, TakenIn, OrdinaryEvents
<1>1. events' = events /\ inbox[g] # <<>> /\ (ingested' = ingested \/ ingested' = Append(ingested, e))
  BY DEF ServerIngests
<1>2. e \in DOMAIN events /\ e \in OrdinaryEvents
  <2>1. 1 \in DOMAIN inbox[g] /\ e = inbox[g][1] /\ e \in OrdinaryEvents
    BY <1>0, <1>1, HeadTailProperties
  <2> QED
    BY <2>1 DEF LinkInv, TakenIn
<1> HIDE DEF e
<1>3. CASE ingested' = ingested
  BY <1>0, <1>1, <1>3, OrderStays
<1>4. CASE ingested' = Append(ingested, e)
  <2> DEFINE n == Len(ingested)
  <2>1. /\ n \in Nat /\ DOMAIN ingested = 1 .. n /\ ingested' \in Seq(OrdinaryEvents) /\ Len(ingested') = n + 1
        /\ DOMAIN ingested' = 1 .. n + 1 /\ ingested'[n + 1] = e
        /\ \A i \in 1 .. n : ingested'[i] = ingested[i]
    BY <1>0, <1>2, <1>4
  <2> HIDE DEF n
  <2>2. \A a : Taken(a)' <=> Taken(a) \/ a = e
    BY <2>1 DEF Taken
  <2>3. \A a : (Contains(ingested, a) <=> Taken(a)) /\ (Contains(ingested', a) <=> Taken(a)')
    <3>1. \A a : Contains(ingested', a) <=> Taken(a)'
      BY <2>1 DEF Contains, Taken
    <3> QED
      BY <3>1, TakenSame
  <2>4. \A a \in DOMAIN events' : events'[a].is = "delivered" => Contains(ingested', a)
    BY <1>0, <1>1, <2>2, <2>3 DEF OrdinaryInOrder
  <2>5. ASSUME NEW i \in 1 .. n, NEW a \in 1 .. ingested[i]
        PROVE  Contains(SubSeq(ingested', 1, i), a) \/ events[a].is = "failed"
    <3>1. Contains(SubSeq(ingested, 1, i), a) \/ events[a].is = "failed"
      BY <1>0, <2>1, <2>5 DEF OrdinaryInOrder
    <3>2. i \in 0 .. Len(ingested) /\ i \in 0 .. Len(ingested')
      BY <2>1 DEF n
    <3>3. /\ Contains(SubSeq(ingested, 1, i), a) <=> \E k \in 1 .. i : ingested[k] = a
          /\ Contains(SubSeq(ingested', 1, i), a) <=> \E k \in 1 .. i : ingested'[k] = a
      <4>1. Contains(SubSeq(ingested, 1, i), a) <=> \E k \in 1 .. i : ingested[k] = a
        BY <1>0, <3>2, PrefixHas
      <4>2. Contains(SubSeq(ingested', 1, i), a) <=> \E k \in 1 .. i : ingested'[k] = a
        BY <2>1, <3>2, PrefixHas
      <4> QED
        BY <4>1, <4>2
    <3>4. \A k \in 1 .. i : k \in 1 .. n
      BY <2>1
    <3> QED
      BY <2>1, <3>1, <3>3, <3>4
  <2>6. ASSUME NEW a \in 1 .. e
        PROVE  Contains(SubSeq(ingested', 1, n + 1), a) \/ events[a].is = "failed"
    <3>1. Contains(SubSeq(ingested', 1, n + 1), a) <=> \E k \in 1 .. n + 1 : ingested'[k] = a
      BY <2>1, PrefixHas
    <3>2. Taken(a) \/ a = e => Contains(SubSeq(ingested', 1, n + 1), a)
      BY <2>1, <2>2, <3>1 DEF Taken
    <3>3. a # e => a \in DOMAIN events /\ a # Len(events)
      BY <1>0, <1>2
    <3>4. a # e => events[a].is # "pending" /\ events[a] \in EventOf
      BY <1>0, <3>3 DEF LinkInv, TakenIn
    <3>5. a # e => events[a].is = "failed" \/ Taken(a)
      BY <1>0, <2>3, <3>3, <3>4 DEF OrdinaryInOrder, EventOf
    <3> QED
      BY <3>2, <3>5
  <2>7. \A i \in DOMAIN ingested' : \A a \in 1 .. ingested'[i] :
          Contains(SubSeq(ingested', 1, i), a) \/ events'[a].is = "failed"
    <3> SUFFICES ASSUME NEW i \in 1 .. n + 1, NEW a \in 1 .. ingested'[i]
                 PROVE  Contains(SubSeq(ingested', 1, i), a) \/ events[a].is = "failed"
      BY <1>1, <2>1
    <3>1. CASE i = n + 1
      BY <2>1, <2>6, <3>1
    <3>2. CASE i # n + 1
      <4>1. i \in 1 .. n
        BY <2>1, <3>2
      <4> QED
        BY <2>1, <2>5, <4>1
    <3> QED
      BY <3>1, <3>2
  <2>8. OrdinaryInOrder'
    BY <2>4, <2>7 DEF OrdinaryInOrder
  <2> QED
    BY <1>0, <1>2, <2>2, <2>8
<1> QED
  BY <1>1, <1>3, <1>4

\* What a step of the server takes in.
LEMMA ServerTakes ==
  ASSUME LinkInv, NEW g \in Gens,
         \/ ServerHello(g) \/ ServerReady(g) \/ ServerProbe(g) \/ ServerTimesOut(g) \/ ServerCloses(g)
         \/ ServerIngests(g) \/ \E e \in OrdinaryEvents : ServerEvent(g, e)
  PROVE  ingested' = ingested \/ ServerIngests(g)
BY DEF ServerHello, ServerReady, ServerProbe, ServerTimesOut, ServerCloses, ServerEvent

LEMMA TakenInKept ==
  ASSUME LinkInv, LinkNext
  PROVE  TakenIn'
<1>0. LinkTypeOK /\ TakenIn
  BY DEF LinkInv
<1>1. CASE Connect
  <2>1. UNCHANGED <<events, up, down, inbox, ingested>>
    BY <1>1 DEF Connect, wireVars, linkServerVars
  <2> QED
    BY <1>0, <2>1 DEF TakenIn, Taken, OrdinaryInOrder
<1>2. CASE \/ Opens \/ ReceiveReady \/ ReceivePong \/ Probe \/ TimesOut
           \/ Disconnects \/ Refused \/ GraceExpires \/ SendEvent
           \/ \E e \in OrdinaryEvents : RetentionExpires(e) \/ \E verdict \in Statuses : ReceiveAck(e, verdict)
  <2>1. /\ ingested' = ingested /\ inbox' = inbox
        /\ \A g \in Gens \ {gen} : up'[g] = up[g]
        /\ \A g \in Gens : \A w : Carries(down'[g], w) => Carries(down[g], w)
    BY <1>2, DaemonTouches DEF linkServerVars
  <2>2. Settles \/ Sends
    BY <1>2, DaemonSettles, SendSends
  <2>3. \A e \in OrdinaryEvents : (gen \in Gens /\ Carries(up'[gen], EventName(e))) =>
           Carries(up[gen], EventName(e)) \/ e \in DOMAIN events'
    BY <1>2, DaemonWrites
  <2>4. /\ OrdinaryInOrder' /\ InSeries' /\ \A e : Taken(e)' <=> Taken(e)
        /\ DOMAIN events \subseteq DOMAIN events'
        /\ \A e \in OrdinaryEvents : Taken(e)' => e \in DOMAIN events'
    BY <2>1, <2>2, OrderStays
  <2>5. \A g \in Gens, e \in OrdinaryEvents : Carries(up'[g], EventName(e)) => e \in DOMAIN events'
    BY <1>0, <2>1, <2>3, <2>4 DEF TakenIn
  <2>6. \A g \in Gens, e \in OrdinaryEvents : Carries(down'[g], <<"accepted", e>>) => Taken(e)'
    BY <1>0, <2>1, <2>4 DEF TakenIn
  <2>7. \A g \in Gens : \A i \in DOMAIN inbox'[g] : inbox'[g][i] \in DOMAIN events'
    BY <1>0, <2>1, <2>4 DEF TakenIn
  <2> QED
    BY <2>4, <2>5, <2>6, <2>7 DEF TakenIn, InSeries
<1>3. ASSUME NEW g \in Gens,
             \/ ServerHello(g) \/ ServerReady(g) \/ ServerProbe(g) \/ ServerTimesOut(g) \/ ServerCloses(g)
             \/ ServerIngests(g) \/ \E e \in OrdinaryEvents : ServerEvent(g, e)
      PROVE  TakenIn'
  <2>1. /\ events' = events
        /\ \A h \in Gens \ {g} : up'[h] = up[h] /\ down'[h] = down[h]
        /\ \A w : Carries(up'[g], w) => Carries(up[g], w)
    BY <1>3, ServerTouches
  <2>2. /\ OrdinaryInOrder' /\ InSeries' /\ \A e : Taken(e) => Taken(e)'
        /\ \A e \in OrdinaryEvents : Taken(e)' => e \in DOMAIN events'
    BY <2>1, OrderStays, <1>0, Ingests, <1>3, ServerTakes DEF TakenIn, InSeries
  <2>3. \A e \in OrdinaryEvents : Carries(down'[g], <<"accepted", e>>) => Taken(e)'
    <3>1. CASE down' = down
      BY <1>0, <2>2, <3>1 DEF TakenIn
    <3>2. ASSUME NEW w, Tells(g, w), NEW e \in OrdinaryEvents, Carries(down'[g], <<"accepted", e>>)
          PROVE  Taken(e)'
      <4>1. w \in Answers /\ down' = Told(g, w) /\ (w = <<"accepted", e>> => Taken(e)')
        BY <3>2 DEF Tells
      <4>2. Carries(down[g], <<"accepted", e>>) \/ <<"accepted", e>> = w
        BY <1>0, <3>2, <4>1, ToldDown
      <4>3. Carries(down[g], <<"accepted", e>>) => Taken(e)
        BY <1>0 DEF TakenIn
      <4> QED
        BY <2>2, <4>1, <4>2, <4>3
    <3> QED
      BY <1>3, <3>1, <3>2, ServerTells
  <2>4. \A h \in Gens : \A w : Carries(up'[h], w) => Carries(up[h], w)
    BY <2>1
  <2>5. \A h \in Gens, e \in OrdinaryEvents : Carries(down'[h], <<"accepted", e>>) => Taken(e)'
    BY <1>0, <2>1, <2>2, <2>3 DEF TakenIn
  <2>6. \A h \in Gens : \A i \in DOMAIN inbox'[h] : inbox'[h][i] \in DOMAIN events'
    BY <1>0, <1>3, <2>1, Queues DEF TakenIn
  <2> QED
    BY <1>0, <2>1, <2>2, <2>4, <2>5, <2>6 DEF TakenIn, InSeries
<1>4. CASE CutSocket
  BY <1>4, CutLeaves, <1>0, OrderStays DEF linkServerVars, TakenIn, InSeries
<1>5. CASE LinkTick
  <2>1. ingested' = ingested /\ inbox' = inbox
        /\ \A g \in Gens : \A w : /\ Carries(up'[g], w) <=> Carries(up[g], w)
                                  /\ Carries(down'[g], w) <=> Carries(down[g], w)
    BY <1>0, <1>5, TickTypes DEF LinkTick
  <2>2. /\ OrdinaryInOrder' /\ InSeries' /\ \A e : Taken(e)' <=> Taken(e)
        /\ DOMAIN events \subseteq DOMAIN events'
        /\ \A e \in OrdinaryEvents : Taken(e)' => e \in DOMAIN events'
    BY <1>5, <2>1, TickSettles, OrderStays
  <2> QED
    BY <1>0, <2>1, <2>2 DEF TakenIn, InSeries
<1> QED
  BY <1>1, <1>2, <1>3, <1>4, <1>5 DEF LinkNext

(* Handshakes in turn *)

\* What is open of an earlier handshake.
Turn ==
  \A g \in Gens : srv[g].is \in {"initializing", "ready", "active"} =>
    \A h \in 1 .. g - 1 : ~HandshakeOpen(h)

LEMMA TurnKept ==
  ASSUME LinkInv, LinkNext, HandshakesInTurn
  PROVE  Turn'
<1>0. /\ LinkTypeOK /\ Turn /\ srv \in [Gens -> ServerOf] /\ up \in [Gens -> Frames(Requests)]
      /\ \A g \in Gens : 1 .. g - 1 \subseteq Gens /\ \A h \in 1 .. g - 1 : h < g /\ ~(g < h) /\ h # g
      /\ gen \in Int /\ Gens \subseteq Int
  <2>1. LinkTypeOK /\ Turn
    BY DEF LinkInv, InTurn, Turn
  <2>2. srv \in [Gens -> ServerOf] /\ up \in [Gens -> Frames(Requests)] /\ gen \in Nat
    BY <2>1 DEF LinkTypeOK
  <2>3. Gens = 1 .. LastGen /\ LastGen \in Nat
    BY LinkAssumption DEF Gens
  <2>4. \A g \in Gens : 1 .. g - 1 \subseteq Gens /\ \A h \in 1 .. g - 1 : h < g /\ ~(g < h) /\ h # g
    BY <2>3
  <2> QED
    BY <2>1, <2>2, <2>3, <2>4
\* No socket that takes part is later than one whose handshake becomes open.
<1>1. ASSUME NEW g \in Gens,
             \A k \in Gens : srv'[k].is \in {"initializing", "ready", "active"} =>
               srv[k].is \in {"initializing", "ready", "active"},
             \A k \in Gens : HandshakeOpen(k)' =>
               HandshakeOpen(k) \/ \A l \in Gens : srv[l].is # "none" => l <= k
      PROVE  Turn'
  <2> SUFFICES ASSUME NEW l \in Gens, srv'[l].is \in {"initializing", "ready", "active"},
                      NEW h \in 1 .. l - 1, HandshakeOpen(h)'
               PROVE  FALSE
    BY DEF Turn
  <2>1. h \in Gens /\ ~(l <= h) /\ srv[l].is \in {"initializing", "ready", "active"}
    BY <1>0, <1>1
  <2> QED
    BY <1>0, <1>1, <2>1 DEF Turn
<1>2. CASE Gens = {}
  BY <1>2 DEF Turn
<1>3. \A l \in Gens : srv[l].is # "none" => l <= gen
  BY <1>0 DEF LinkInv, Unopened
<1>4. CASE Connect
  BY <1>0, <1>4 DEF Connect, Turn, HandshakeOpen, wireVars, linkServerVars
<1>5. CASE \/ Opens \/ ReceiveReady \/ ReceivePong \/ Probe \/ TimesOut
           \/ Disconnects \/ Refused \/ GraceExpires \/ SendEvent
           \/ \E e \in OrdinaryEvents : RetentionExpires(e) \/ \E verdict \in Statuses : ReceiveAck(e, verdict)
  BY <1>5, DaemonTouches, <1>1, <1>2, <1>3 DEF linkServerVars, HandshakeOpen
<1>6. CASE CutSocket
  BY <1>6, CutLeaves, <1>1, <1>3 DEF linkServerVars, HandshakeOpen
<1>7. CASE LinkTick
  <2>1. /\ \A k \in Gens : srv'[k].is = srv[k].is /\ Len(up'[k]) = Len(up[k])
        /\ up' \in [Gens -> Frames(Requests)]
    BY <1>0, <1>7, TickTypes DEF LinkTypeOK
  <2>2. \A k \in Gens : up'[k] = <<>> <=> up[k] = <<>>
    BY <1>0, <2>1 DEF Frames
  <2>3. \A k \in Gens : HandshakeOpen(k)' => HandshakeOpen(k)
    BY <2>1, <2>2 DEF HandshakeOpen
  <2> QED
    BY <1>1, <1>2, <2>1, <2>3
<1>8. ASSUME NEW g \in Gens,
             \/ ServerHello(g) \/ ServerReady(g) \/ ServerProbe(g) \/ ServerTimesOut(g) \/ ServerCloses(g)
             \/ ServerIngests(g) \/ \E e \in OrdinaryEvents : ServerEvent(g, e)
      PROVE  Turn'
  <2>1. \A k \in Gens \ {g} : up'[k] = up[k] /\ srv'[k] = srv[k]
    BY <1>8, ServerTouches
  <2>2. srv'[g].is # "none"
    BY <1>8, ServerTouches
  <2>3. CASE ServerHello(g)
    <3>1. HandshakeOpen(g) /\ \A h \in 1 .. g - 1 : ~HandshakeOpen(h)
      BY <2>3 DEF ServerHello, AtServer, Arrives, HandshakeOpen
    <3>2. \A l \in Gens : srv[l].is \in {"initializing", "ready", "active"} => ~(g \in 1 .. l - 1)
      BY <1>0, <3>1 DEF Turn
    <3> SUFFICES ASSUME NEW l \in Gens, srv'[l].is \in {"initializing", "ready", "active"},
                        NEW h \in 1 .. l - 1, HandshakeOpen(h)'
                 PROVE  FALSE
      BY DEF Turn
    <3>3. h \in Gens /\ h # l
      BY <1>0
    <3>4. CASE l = g
      BY <3>1, <3>3, <3>4, <2>1 DEF HandshakeOpen
    <3>5. CASE l # g
      BY <2>1, <3>2, <3>5, <1>0, <3>3 DEF Turn, HandshakeOpen
    <3> QED
      BY <3>4, <3>5
  <2>4. CASE ~ServerHello(g)
    <3>1. \A why : Refuse(g, why) => srv'[g].is = "closing"
      BY <1>0 DEF Refuse
    <3>2. /\ srv'[g].is \in {"initializing", "ready"} => srv[g].is \in {"initializing", "ready"}
          /\ srv'[g].is = "active" => srv[g].is \in {"ready", "active"}
      <4>1. CASE ServerReady(g)
        BY <1>0, <3>1, <4>1 DEF ServerReady, ServerOf
      <4>2. CASE ServerProbe(g)
        BY <1>0, <3>1, <4>2 DEF ServerProbe
      <4>3. CASE ServerTimesOut(g)
        BY <3>1, <4>3 DEF ServerTimesOut
      <4>4. CASE ServerCloses(g)
        BY <1>0, <4>4 DEF ServerCloses
      <4>5. ASSUME NEW e \in OrdinaryEvents, ServerEvent(g, e)
            PROVE  /\ srv'[g].is \in {"initializing", "ready"} => srv[g].is \in {"initializing", "ready"}
                   /\ srv'[g].is = "active" => srv[g].is \in {"ready", "active"}
        BY <3>1, <4>5 DEF ServerEvent
      <4>6. CASE ServerIngests(g)
        BY <4>6 DEF ServerIngests
      <4> QED
        BY <1>8, <2>4, <4>1, <4>2, <4>3, <4>4, <4>5, <4>6
    <3>3. \A k \in Gens : HandshakeOpen(k)' => HandshakeOpen(k)
      BY <2>1, <2>2, <3>2 DEF HandshakeOpen
    <3>4. \A k \in Gens : srv'[k].is \in {"initializing", "ready", "active"} =>
                            srv[k].is \in {"initializing", "ready", "active"}
      BY <2>1, <3>2
    <3> QED
      BY <1>1, <3>3, <3>4
  <2> QED
    BY <2>3, <2>4
<1> QED
  BY <1>4, <1>5, <1>6, <1>7, <1>8 DEF LinkNext

\* The current socket, once active, stays registered.
LEMMA BoundKept ==
  ASSUME LinkInv, HandshakesInTurn, NEW g \in Gens,
         \/ ServerHello(g) \/ ServerReady(g) \/ ServerProbe(g) \/ ServerTimesOut(g) \/ ServerCloses(g)
         \/ ServerIngests(g) \/ \E e \in OrdinaryEvents : ServerEvent(g, e),
         gen \in Gens, srv'[gen].is = "active"
  PROVE  bound' = gen
<1>0. /\ srv \in [Gens -> ServerOf] /\ gen \in Gens /\ Gens \subseteq Int /\ 0 \notin Gens
      /\ \A k \in Gens : k < gen => k \in 1 .. gen - 1
  BY LinkAssumption DEF LinkInv, LinkTypeOK, Gens
<1>1. \A h \in Gens \ {g} : srv'[h] = srv[h]
  BY ServerTouches
<1>2. srv[gen].is = "active" => bound = gen
  BY <1>0 DEF LinkInv, InTurn
<1>3. \A why : Refuse(g, why) => srv'[g].is = "closing"
  BY <1>0 DEF Refuse
<1>4. CASE ServerHello(g) \/ ServerReady(g) \/ ServerTimesOut(g) \/ ServerIngests(g) \/ \E e \in OrdinaryEvents : ServerEvent(g, e)
  <2>1. bound' = bound
    BY <1>4 DEF ServerHello, ServerReady, ServerTimesOut, ServerEvent, ServerIngests
  <2>2. ServerHello(g) => srv'[g].is \in {"initializing", "closing"}
    BY <1>0, <1>3 DEF ServerHello
  <2>3. ServerReady(g) => srv'[g].is \in {"ready", "closing"}
    BY <1>0, <1>3 DEF ServerReady, ServerOf
  <2>4. srv[gen].is = "active"
    BY <1>1, <1>3, <1>4, <2>2, <2>3 DEF ServerTimesOut, ServerEvent, ServerIngests
  <2> QED
    BY <1>2, <2>1, <2>4
<1>5. CASE ServerProbe(g)
  <2>1. CASE g = gen
    BY <2>1, <1>3, <1>5 DEF ServerProbe
  <2>2. CASE g # gen
    <3>1. srv[gen].is = "active" /\ bound = gen
      BY <1>1, <1>2, <2>2
    <3>2. g < gen
      BY <1>0, <1>5, <2>2 DEF ServerProbe, LinkInv, Unopened
    <3>3. ~HandshakeOpen(g)
      BY <1>0, <3>1, <3>2 DEF LinkInv, InTurn
    <3>4. srv[g].is = "active" /\ bound # g
      BY <1>5, <2>2, <3>1, <3>3 DEF ServerProbe, HandshakeOpen
    <3> QED
      BY <1>5, <3>1, <3>4 DEF ServerProbe
  <2> QED
    BY <2>1, <2>2
<1>6. CASE ServerCloses(g)
  BY <1>0, <1>6, <1>1, <1>2 DEF ServerCloses
<1> QED
  BY <1>4, <1>5, <1>6

LEMMA InTurnKept ==
  ASSUME LinkInv, LinkNext, HandshakesInTurn
  PROVE  InTurn'
<1> DEFINE refusal == <<"refused", "protocol">>
<1>0. /\ LinkTypeOK /\ gen \in 0 .. LastGen /\ LastGen \in Nat /\ NotRefusedByProtocol /\ (gen # 0 => gen \in Gens)
      /\ gen # 0 => (srv[gen].is = "active" => bound = gen) /\ ~Carries(down[gen], refusal)
  BY LinkAssumption DEF LinkInv, LinkTypeOK, InTurn, Gens
<1>1. SUFFICES /\ gen' # 0 => (srv'[gen'].is = "active" => bound' = gen') /\ ~Carries(down'[gen'], refusal)
               /\ NotRefusedByProtocol'
  BY TurnKept DEF InTurn, Turn
<1>2. CASE Connect
  <2>1. gen' = gen + 1 /\ gen' \in Gens /\ gen' > gen /\ runner' = runner /\ UNCHANGED <<wireVars, linkServerVars>>
    BY <1>0, <1>2 DEF Connect, Gens
  <2>2. down[gen'] = <<>> /\ srv[gen'].is = "none"
    BY <2>1 DEF LinkInv, Unopened
  <2>3. ~Carries(down[gen'], refusal)
    BY <2>2 DEF Carries
  <2> QED
    BY <1>0, <2>1, <2>2, <2>3 DEF NotRefusedByProtocol, wireVars, linkServerVars
<1>3. CASE \/ Opens \/ ReceiveReady \/ ReceivePong \/ Probe \/ TimesOut
           \/ Disconnects \/ Refused \/ GraceExpires \/ SendEvent
           \/ \E e \in OrdinaryEvents : RetentionExpires(e) \/ \E verdict \in Statuses : ReceiveAck(e, verdict)
  <2>1. gen' = gen /\ srv' = srv /\ bound' = bound /\ \A g \in Gens : \A w : Carries(down'[g], w) => Carries(down[g], w)
    BY <1>3, DaemonTouches DEF linkServerVars
  <2>2. ASSUME NEW why \in Whys, Lose(why) \/ Fatal(why), why # "protocol" PROVE NotRefusedByProtocol'
    BY <1>0, <2>2, Lost DEF NotRefusedByProtocol
  <2>3. ASSUME Refused PROVE NotRefusedByProtocol'
    <3>1. PICK why \in {"credential", "expired", "protocol"} : AtDaemon(<<"refused", why>>) /\ Fatal(why)
      BY <2>3 DEF Refused
    <3>2. gen \in Gens /\ Carries(down[gen], <<"refused", why>>)
      BY <1>0, <3>1, DownTaken
    <3>3. why # "protocol"
      BY <1>0, <3>2 DEF Gens
    <3> QED
      BY <2>2, <3>1, <3>3, WhyNames
  <2>4. ASSUME BecomesUsable, ReceivePong PROVE NotRefusedByProtocol'
    BY <1>0, <2>4, DownTaken, Usable DEF ReceivePong, NotRefusedByProtocol
  <2>5. ASSUME NEW why \in {"handshake", "probe", "timeout", "disconnected", "grace"}, Lose(why) \/ Fatal(why)
        PROVE  NotRefusedByProtocol'
    BY <2>2, <2>5, WhyNames
  <2>6. ASSUME runner' = runner PROVE NotRefusedByProtocol'
    BY <1>0, <2>6 DEF NotRefusedByProtocol
  <2>7. NotRefusedByProtocol'
    BY <1>3, <2>3, <2>4, <2>5, <2>6
       DEF Opens, ReceiveReady, ReceivePong, Probe, TimesOut, Disconnects, GraceExpires, SendEvent,
           RetentionExpires, ReceiveAck, FirstPong
  <2> QED
    BY <1>0, <2>1, <2>7
<1>4. ASSUME NEW g \in Gens,
             \/ ServerHello(g) \/ ServerReady(g) \/ ServerProbe(g) \/ ServerTimesOut(g) \/ ServerCloses(g)
             \/ ServerIngests(g) \/ \E e \in OrdinaryEvents : ServerEvent(g, e)
      PROVE  /\ gen' # 0 => (srv'[gen'].is = "active" => bound' = gen') /\ ~Carries(down'[gen'], refusal)
             /\ NotRefusedByProtocol'
  <2>1. gen' = gen /\ runner' = runner /\ \A h \in Gens \ {g} : down'[h] = down[h]
    BY <1>4, ServerTouches
  <2>2. gen # 0 => (srv'[gen].is = "active" => bound' = gen)
    BY <1>0, <1>4, BoundKept
  <2>3. ASSUME gen # 0, Carries(down'[gen], refusal) PROVE FALSE
    <3>1. PICK w : Tells(g, w) /\ g = gen
      BY <1>0, <1>4, <2>1, <2>3, ServerTells
    <3>2. w = refusal
      BY <1>0, <2>3, <3>1, ToldDown DEF Tells
    <3>3. (srv[g].is = "active" /\ bound # g) \/
          \E e \in OrdinaryEvents : /\ Carries(up[g], EventName(e)) /\ ~HasRegistry(g)
                                    /\ srv[g].is \in {"initializing", "ready", "active"}
      BY <3>1, <3>2 DEF Tells
    <3>4. ASSUME NEW e \in OrdinaryEvents, Carries(up[g], EventName(e)), srv[g].is \in {"initializing", "ready", "active"}
          PROVE  srv[g].is = "active"
      BY <3>4 DEF LinkInv, Answered, Ends
    <3> QED
      BY <1>0, <2>3, <3>1, <3>3, <3>4 DEF HasRegistry
  <2> QED
    BY <1>0, <2>1, <2>2, <2>3 DEF NotRefusedByProtocol
<1>5. CASE CutSocket
  BY <1>0, <1>5, CutLeaves DEF linkServerVars, NotRefusedByProtocol
<1>6. CASE LinkTick
  BY <1>0, <1>6, TickTypes DEF LinkTick, NotRefusedByProtocol
<1> QED
  BY <1>2, <1>3, <1>4, <1>5, <1>6 DEF LinkNext

(* The session of a managed daemon: the theorems *)

LEMMA LinkInvInit ==
  LinkInit => LinkInv
<1> SUFFICES ASSUME LinkInit PROVE LinkInv
  OBVIOUS
<1>0. /\ gen = 0 /\ link = NoPeer /\ events = <<>> /\ cut = {} /\ bound = 0 /\ ingested = <<>>
      /\ \A g \in Gens : up[g] = <<>> /\ down[g] = <<>> /\ srv[g] = NoServer /\ inbox[g] = <<>>
      /\ runner = [is |-> "up", everUsable |-> FALSE, loss |-> Off, retry |-> Off,
                   why |-> "none", away |-> Off, after |-> Off]
  BY DEF LinkInit
<1>1. LinkTypeOK
  <2>1. link \in LinkOf /\ runner \in RunnerOf /\ NoServer \in ServerOf
    BY <1>0, ClocksRun DEF NoPeer, NoServer, LinkOf, RunnerOf, ServerOf, Whys
  <2>2. \A W : <<>> \in Frames(W)
    BY DEF Frames
  <2>3. up \in [Gens -> Frames(Requests)] /\ down \in [Gens -> Frames(Answers)] /\ srv \in [Gens -> ServerOf]
    BY <2>1, <2>2 DEF LinkInit
  <2> QED
    BY <1>0, <2>1, <2>3, LinkAssumption DEF LinkTypeOK, LinkInit
<1>2. \A g \in Gens : \A w : ~Carries(up[g], w) /\ ~Carries(down[g], w)
  BY <1>0 DEF Carries
<1>3. \A e : ~Taken(e)
  BY <1>0 DEF Taken
<1>4. Unopened /\ LinkOfRunner /\ LossCounted /\ ProofCounted
  BY <1>0 DEF Unopened, LinkOfRunner, LossCounted, ProofCounted, NoPeer, NoServer, Gens
<1>5. AnnouncedOnce /\ Answered
  <2>1. AnnouncedOnce
    BY <1>0 DEF AnnouncedOnce, Pairs, NoPeer
  <2>2. Answered
    BY <1>0, <1>2 DEF Answered, NoPeer
  <2> QED
    BY <2>1, <2>2
<1>6. TakenIn
  <2>1. OrdinaryInOrder
    BY <1>0 DEF OrdinaryInOrder
  <2>2. DOMAIN events = {} /\ \A g \in Gens : DOMAIN inbox[g] = {}
    BY <1>0
  <2> QED
    BY <1>2, <1>3, <2>1, <2>2 DEF TakenIn
<1>7. InTurn
  BY <1>0 DEF InTurn, NotRefusedByProtocol, NoServer
<1> QED
  BY <1>1, <1>4, <1>5, <1>6, <1>7 DEF LinkInv

LEMMA LinkInvStep ==
  LinkInv /\ [LinkNext]_linkVars => LinkInv'
<1>1. ASSUME LinkInv, LinkNext PROVE LinkInv'
  BY <1>1, LinkTypesKept, UnopenedKept, CountedKept, AnnouncedKept, AnsweredKept, TakenInKept,
     InTurnKept DEF LinkInv, LinkCounted
<1>2. ASSUME LinkInv, UNCHANGED linkVars PROVE LinkInv'
  <2>1. UNCHANGED <<gen, link, runner, events, up, down, cut, srv, bound, inbox, ingested>>
    BY <1>2 DEF linkVars, wireVars, linkServerVars
  <2>2. LinkTypeOK' /\ Unopened' /\ LinkOfRunner' /\ LossCounted' /\ ProofCounted'
    BY <1>2, <2>1 DEF LinkInv, LinkTypeOK, Unopened, LinkOfRunner, LossCounted, ProofCounted
  <2>3. AnnouncedOnce' /\ Answered'
    BY <1>2, <2>1 DEF LinkInv, AnnouncedOnce, Answered
  <2>4. TakenIn'
    BY <1>2, <2>1 DEF LinkInv, TakenIn, OrdinaryInOrder, Taken
  <2>5. InTurn => InTurn'
    BY <2>1 DEF InTurn, NotRefusedByProtocol, HandshakeOpen
  <2> QED
    BY <1>2, <2>2, <2>3, <2>4, <2>5 DEF LinkInv
<1> QED
  BY <1>1, <1>2

\* Of a managed daemon's session (managed-ws-transport.ts, managed-node-runner.ts,
\* node-ws.ts): the frames on every socket, the timers of both ends, what the
\* server has answered, registered, queued and taken in, and where handshakes come in
\* turn, that the latest socket holds the registry.
THEOREM LinkInvHoldsAlways == LinkSpec => []LinkInv
<1>1. LinkInit => LinkInv
  BY LinkInvInit
<1>2. LinkInv /\ [LinkNext]_linkVars => LinkInv'
  BY LinkInvStep
<1> QED
  BY <1>1, <1>2, PTL DEF LinkSpec

LEMMA LinkKeeps ==
  LinkInv => LossIsBounded /\ OrdinaryInOrder
<1> SUFFICES ASSUME LinkInv PROVE LossIsBounded
  BY DEF LinkInv, TakenIn
<1> QED
  BY DEF LinkInv, LossCounted, LossIsBounded

\* Whatever the server's timing, a daemon without a usable session goes on for
\* the grace at most (expireLoss and onSessionUsable); an ordinary event reported
\* as delivered has come in (settleLegacy), and one comes in only after each
\* before it came in or was reported as failed, whatever receipts are rejections,
\* lost or never written and whatever an older binding still has queued
\* (streamStartedRun, sendLegacy, flushLegacy, enqueue).
THEOREM LinkKeepsOrder == LinkSpec => [](LossIsBounded /\ OrdinaryInOrder)
<1> QED
  BY LinkInvHoldsAlways, LinkKeeps, PTL

LEMMA LinkIsInTurn ==
  ASSUME HandshakesInTurn, LinkInv
  PROVE  LinkHolds
<1>0. LinkTypeOK /\ InTurn /\ ProofCounted /\ Answered
  BY DEF LinkInv
<1>1. UsableIsProved
  <2> SUFFICES ASSUME link.is = "usable" PROVE UsableIsProved
    BY DEF UsableIsProved
  <2>1. gen \in Gens /\ gen # 0
    BY GenInUse DEF Gens
  <2>2. link.probe \in Clocks /\ link.proved \in Clocks /\ {ProbeEvery, ProbeWithin, Lag} \subseteq Nat
    BY <1>0, LinkAssumption DEF LinkTypeOK, LinkOf
  <2>3. link.proved <= ProbeEvery + ProbeWithin + 2 * Lag
    BY <1>0, <2>2 DEF ProofCounted, Clocks, Off
  <2>4. srv[gen].is \in {"active", "closing", "closed"} /\ (srv[gen].is = "active" => bound = gen)
    BY <1>0, <2>1 DEF Answered, Ends, InTurn
  <2> QED
    BY <2>3, <2>4 DEF UsableIsProved
<1>2. LossIsBounded /\ OrdinaryInOrder
  BY LinkKeeps
<1>3. NotRefusedByProtocol
  BY <1>0 DEF InTurn
<1> QED
  BY <1>1, <1>2, <1>3 DEF LinkHolds

\* Where the handshake of a socket is over at the server before that of the next
\* begins: a session the daemon takes for usable was proved a bounded time ago
\* and holds the registry or is closed (node-ws.ts, node-registry.ts), and no
\* daemon that keeps the protocol is refused for breaking it.
THEOREM LinkIsSafe ==
  ASSUME HandshakesInTurn
  PROVE  LinkSpec => []LinkHolds
<1>1. LinkInv => LinkHolds
  BY LinkIsInTurn
<1> QED
  BY <1>1, LinkInvHoldsAlways, PTL

-------------------------------------------------------------------------------
(* A command-line agent: the invariant *)

Clis ==
  [leader : {"none", "up", "gone"}, kids : BOOLEAN, hold : BOOLEAN,
   code : {"none", "zero", "other", "signal"}, killed : BOOLEAN]
Guardians ==
  [phys : {"none", "up", "gone"}, status : {"none", "zero", "other"}, disarmed : BOOLEAN,
   attempted : BOOLEAN, spawned : BOOLEAN, failed : BOOLEAN, closed : BOOLEAN]
Watches ==
  [spawned : BOOLEAN, failed : BOOLEAN, exited : BOOLEAN, stdio : BOOLEAN,
   term : {"none", "killing", "done", "failed"}, stopReason : BOOLEAN, natural : BOOLEAN,
   outcome : {"none", "completed", "failed", "cancelled"}]
Startups ==
  [at : {"prepare", "spawn", "guard", "killing", "aborting", "returned", "receipt", "rejected"},
   abort : BOOLEAN, helper : {"sure", "unsure"}]

CliTypeOK ==
  /\ cli \in Clis /\ guardian \in Guardians /\ watch \in Watches /\ startup \in Startups
  /\ stopCall \in {"none", "asked", "unsure"}
  /\ daemonUp \in BOOLEAN /\ owned \in BOOLEAN
  /\ said \subseteq {"not_spawned", "uncertain", "closed", "stopped"}

\* What the adapter has seen of the group is so, and an end that was reached
\* stays: a group that is gone forks no more.
WatchFits ==
  /\ startup.at = "prepare" => cli.leader = "none" /\ ~watch.failed
  /\ cli.kids => cli.leader # "none"
  /\ watch.failed => cli.leader = "none"
  /\ watch.spawned => cli.leader # "none"
  /\ startup.at = "spawn" => cli.leader # "none" \/ watch.failed
  /\ watch.exited => cli.leader = "gone"
  /\ watch.term = "done" => GroupGone /\ watch.exited
  /\ watch.outcome # "none" => GroupEnded(watch)
  /\ watch.natural => watch.exited

\* A guardian is asked for once, behind the agent, and ends well only behind it.
GuardianFits ==
  /\ guardian.attempted => startup.at \notin {"prepare", "spawn"}
  /\ guardian.phys # "none" => guardian.attempted /\ ~guardian.failed
  /\ guardian.failed => guardian.attempted
  /\ guardian.closed => guardian.phys = "gone" \/ guardian.failed
  /\ guardian.phys = "gone" <=> guardian.status # "none"
  /\ guardian.status = "zero" => ~Writers
  /\ guardian.disarmed => ~Writers /\ guardian.attempted
  /\ startup.at = "returned" => guardian.phys # "none" \/ watch.outcome # "none"
  /\ watch.outcome # "none" => guardian.disarmed \/ ~guardian.attempted

\* What was said was so then, when no process was to come any more.
SaidFits ==
  /\ stopCall # "none" => startup.at \in {"returned", "receipt"}
  /\ "stopped" \in said \/ "closed" \in said =>
       ~Writers /\ startup.at \in {"returned", "receipt", "rejected"}
  /\ "closed" \in said => guardian.phys # "up"
  /\ "not_spawned" \in said => cli.leader = "none" /\ startup.at # "prepare"
  /\ owned /\ watch.natural /\ ~startup.abort /\ ~guardian.failed
       => ~watch.stopReason /\ watch.outcome # "cancelled"

CliInv == CliTypeOK /\ WatchFits /\ GuardianFits /\ SaidFits

LEMMA CliInvHolds == CliInv => CliHolds
<1> SUFFICES ASSUME CliInv PROVE CliHolds
  OBVIOUS
<1> USE DEF CliInv
<1>1. OutcomeMeansGone
  BY DEF OutcomeMeansGone, WatchFits, GroupEnded, GroupGone, Writers
<1>2. ReceiptsAreTrue
  BY DEF ReceiptsAreTrue, SaidFits
<1>3. Guarded
  BY <1>1 DEF Guarded, GuardianFits, OutcomeMeansGone, CliTypeOK, Guardians
<1>4. OutcomeIsKept
  BY DEF OutcomeIsKept, SaidFits
<1> QED
  BY <1>1, <1>2, <1>3, <1>4 DEF CliHolds

LEMMA CliInitOK == CliInit => CliInv
<1> SUFFICES ASSUME CliInit PROVE CliInv
  OBVIOUS
<1>1. CliTypeOK
  BY DEF CliInit, CliTypeOK, Clis, Guardians, Watches, Startups
<1>2. WatchFits
  BY DEF CliInit, WatchFits, GroupGone
<1>3. GuardianFits
  BY DEF CliInit, GuardianFits, Writers
<1>4. SaidFits
  BY DEF CliInit, SaidFits
<1> QED
  BY <1>1, <1>2, <1>3, <1>4 DEF CliInv

\* beginTermination changes nothing but what it has decided and the signal.
LEMMA TerminatingFacts ==
  ASSUME NEW w \in Watches, cli \in Clis, Terminating(w)
  PROVE  /\ watch' \in Watches /\ cli' \in Clis
         /\ watch'.spawned = w.spawned /\ watch'.failed = w.failed
         /\ watch'.exited = w.exited /\ watch'.stdio = w.stdio
         /\ watch'.stopReason = w.stopReason /\ watch'.natural = w.natural
         /\ watch'.outcome = w.outcome
         /\ watch'.term = "done" => w.term = "done" \/ (GroupGone /\ w.exited)
         /\ w.term # "none" => watch'.term = w.term
         /\ cli'.leader = cli.leader /\ cli'.kids = cli.kids
         /\ cli'.hold = cli.hold /\ cli'.code = cli.code
<1>1. CASE w.term # "none" \/ w.failed
  BY <1>1 DEF Terminating
<1>2. CASE watch' = [w EXCEPT !.term = "done"] /\ cli' = cli /\ GroupGone /\ w.exited
         /\ w.term = "none"
  BY <1>2 DEF Watches
<1>3. CASE watch' = [w EXCEPT !.term = "killing"] /\ cli' = [cli EXCEPT !.killed = TRUE] /\ w.term = "none"
  BY <1>3 DEF Watches, Clis
<1>4. CASE watch' = [w EXCEPT !.term = "failed"] /\ cli' = cli /\ w.term = "none"
  BY <1>4 DEF Watches
<1> QED
  BY <1>1, <1>2, <1>3, <1>4 DEF Terminating, Watches

LEMMA ForksKeeps == ASSUME CliInv, Forks PROVE CliInv'
<1> USE DEF CliInv
<1>1. CliTypeOK'
  BY DEF Forks, At, Going, Writers, GroupGone, GroupEnded, CliTypeOK, Clis
<1>2. WatchFits'
  BY DEF Forks, At, Going, Writers, GroupGone, GroupEnded, CliTypeOK, Clis, Guardians, Watches, Startups, WatchFits
<1>3. GuardianFits'
  BY DEF Forks, At, Going, Writers, GroupGone, GroupEnded, CliTypeOK, Clis, Guardians, Watches, Startups, WatchFits, GuardianFits
<1>4. SaidFits'
  BY DEF Forks, At, Going, Writers, GroupGone, GroupEnded, CliTypeOK, Clis, Guardians, Watches, Startups, WatchFits, GuardianFits, SaidFits
<1> QED
  BY <1>1, <1>2, <1>3, <1>4

LEMMA LeaderEndsKeeps == ASSUME CliInv, LeaderEnds PROVE CliInv'
<1> USE DEF CliInv
<1>1. CliTypeOK'
  BY DEF LeaderEnds, At, Going, Writers, GroupGone, GroupEnded, CliTypeOK, Clis
<1>2. WatchFits'
  BY DEF LeaderEnds, At, Going, Writers, GroupGone, GroupEnded, CliTypeOK, Clis, Guardians, Watches, Startups, WatchFits
<1>3. GuardianFits'
  BY DEF LeaderEnds, At, Going, Writers, GroupGone, GroupEnded, CliTypeOK, Clis, Guardians, Watches, Startups, WatchFits, GuardianFits
<1>4. SaidFits'
  BY DEF LeaderEnds, At, Going, Writers, GroupGone, GroupEnded, CliTypeOK, Clis, Guardians, Watches, Startups, WatchFits, GuardianFits, SaidFits
<1> QED
  BY <1>1, <1>2, <1>3, <1>4

LEMMA KidsEndKeeps == ASSUME CliInv, KidsEnd PROVE CliInv'
<1> USE DEF CliInv
<1>1. CliTypeOK'
  BY DEF KidsEnd, At, Going, Writers, GroupGone, GroupEnded, CliTypeOK, Clis
<1>2. WatchFits'
  BY DEF KidsEnd, At, Going, Writers, GroupGone, GroupEnded, CliTypeOK, Clis, Guardians, Watches, Startups, WatchFits
<1>3. GuardianFits'
  BY DEF KidsEnd, At, Going, Writers, GroupGone, GroupEnded, CliTypeOK, Clis, Guardians, Watches, Startups, WatchFits, GuardianFits
<1>4. SaidFits'
  BY DEF KidsEnd, At, Going, Writers, GroupGone, GroupEnded, CliTypeOK, Clis, Guardians, Watches, Startups, WatchFits, GuardianFits, SaidFits
<1> QED
  BY <1>1, <1>2, <1>3, <1>4

LEMMA GuardianKillsKeeps == ASSUME CliInv, GuardianKills PROVE CliInv'
<1> USE DEF CliInv
<1>1. CliTypeOK'
  BY DEF GuardianKills, At, Going, Writers, GroupGone, GroupEnded, CliTypeOK, Clis
<1>2. WatchFits'
  BY DEF GuardianKills, At, Going, Writers, GroupGone, GroupEnded, CliTypeOK, Clis, Guardians, Watches, Startups, WatchFits
<1>3. GuardianFits'
  BY DEF GuardianKills, At, Going, Writers, GroupGone, GroupEnded, CliTypeOK, Clis, Guardians, Watches, Startups, WatchFits, GuardianFits
<1>4. SaidFits'
  BY DEF GuardianKills, At, Going, Writers, GroupGone, GroupEnded, CliTypeOK, Clis, Guardians, Watches, Startups, WatchFits, GuardianFits, SaidFits
<1> QED
  BY <1>1, <1>2, <1>3, <1>4

LEMMA GuardianEndsKeeps == ASSUME CliInv, GuardianEnds PROVE CliInv'
<1> USE DEF CliInv
<1>1. CliTypeOK'
  BY DEF GuardianEnds, At, Going, Writers, GroupGone, GroupEnded, CliTypeOK, Guardians
<1>2. WatchFits'
  BY DEF GuardianEnds, At, Going, Writers, GroupGone, GroupEnded, CliTypeOK, Clis, Guardians, Watches, Startups, WatchFits
<1>3. GuardianFits'
  BY DEF GuardianEnds, At, Going, Writers, GroupGone, GroupEnded, CliTypeOK, Clis, Guardians, Watches, Startups, WatchFits, GuardianFits
<1>4. SaidFits'
  BY DEF GuardianEnds, At, Going, Writers, GroupGone, GroupEnded, CliTypeOK, Clis, Guardians, Watches, Startups, WatchFits, GuardianFits, SaidFits
<1> QED
  BY <1>1, <1>2, <1>3, <1>4

LEMMA DaemonCrashesKeeps == ASSUME CliInv, DaemonCrashes PROVE CliInv'
<1> USE DEF CliInv
<1>1. CliTypeOK'
  BY DEF DaemonCrashes, CliTypeOK
<1>2. WatchFits'
  BY DEF DaemonCrashes, At, Going, Writers, GroupGone, GroupEnded, CliTypeOK, Clis, Guardians, Watches, Startups, WatchFits
<1>3. GuardianFits'
  BY DEF DaemonCrashes, At, Going, Writers, GroupGone, GroupEnded, CliTypeOK, Clis, Guardians, Watches, Startups, WatchFits, GuardianFits
<1>4. SaidFits'
  BY DEF DaemonCrashes, At, Going, Writers, GroupGone, GroupEnded, CliTypeOK, Clis, Guardians, Watches, Startups, WatchFits, GuardianFits, SaidFits
<1> QED
  BY <1>1, <1>2, <1>3, <1>4

LEMMA TerminationEndsKeeps == ASSUME CliInv, TerminationEnds PROVE CliInv'
<1> USE DEF CliInv
<1>1. CliTypeOK'
  BY DEF TerminationEnds, At, Going, Writers, GroupGone, GroupEnded, CliTypeOK, Watches
<1>2. WatchFits'
  BY DEF TerminationEnds, At, Going, Writers, GroupGone, GroupEnded, CliTypeOK, Clis, Guardians, Watches, Startups, WatchFits
<1>3. GuardianFits'
  BY DEF TerminationEnds, At, Going, Writers, GroupGone, GroupEnded, CliTypeOK, Clis, Guardians, Watches, Startups, WatchFits, GuardianFits
<1>4. SaidFits'
  BY DEF TerminationEnds, At, Going, Writers, GroupGone, GroupEnded, CliTypeOK, Clis, Guardians, Watches, Startups, WatchFits, GuardianFits, SaidFits
<1> QED
  BY <1>1, <1>2, <1>3, <1>4

LEMMA FinishesKeeps == ASSUME CliInv, Finishes PROVE CliInv'
<1> USE DEF CliInv
<1>1. CliTypeOK'
  BY DEF Finishes, At, Going, Writers, GroupGone, GroupEnded, CliTypeOK, Guardians, Watches
<1>2. WatchFits'
  BY DEF Finishes, At, Going, Writers, GroupGone, GroupEnded, CliTypeOK, Clis, Guardians, Watches, Startups, WatchFits
<1>3. GuardianFits'
  BY DEF Finishes, At, Going, Writers, GroupGone, GroupEnded, CliTypeOK, Clis, Guardians, Watches, Startups, WatchFits, GuardianFits
<1>4. SaidFits'
  BY DEF Finishes, At, Going, Writers, GroupGone, GroupEnded, CliTypeOK, Clis, Guardians, Watches, Startups, WatchFits, GuardianFits, SaidFits
<1> QED
  BY <1>1, <1>2, <1>3, <1>4

LEMMA PreparationFailsKeeps == ASSUME CliInv, PreparationFails PROVE CliInv'
<1> USE DEF CliInv
<1>1. CliTypeOK'
  BY DEF PreparationFails, At, Going, Writers, GroupGone, GroupEnded, CliTypeOK, Startups
<1>2. WatchFits'
  BY DEF PreparationFails, At, Going, Writers, GroupGone, GroupEnded, CliTypeOK, Clis, Guardians, Watches, Startups, WatchFits
<1>3. GuardianFits'
  BY DEF PreparationFails, At, Going, Writers, GroupGone, GroupEnded, CliTypeOK, Clis, Guardians, Watches, Startups, WatchFits, GuardianFits
<1>4. SaidFits'
  BY DEF PreparationFails, At, Going, Writers, GroupGone, GroupEnded, CliTypeOK, Clis, Guardians, Watches, Startups, WatchFits, GuardianFits, SaidFits
<1> QED
  BY <1>1, <1>2, <1>3, <1>4

LEMMA SpawnsCliKeeps == ASSUME CliInv, SpawnsCli PROVE CliInv'
<1> USE DEF CliInv
<1>1. CliTypeOK'
  <2>1. startup' \in Startups
    BY DEF SpawnsCli, At, Going, Writers, GroupGone, GroupEnded, CliTypeOK, Startups
  <2>2. cli' \in Clis
    BY DEF SpawnsCli, At, Going, Writers, GroupGone, GroupEnded, CliTypeOK, Clis
  <2>3. watch' \in Watches
    BY DEF SpawnsCli, At, Going, Writers, GroupGone, GroupEnded, CliTypeOK, Watches
  <2> QED
    BY <2>1, <2>2, <2>3 DEF SpawnsCli, CliTypeOK
<1>2. WatchFits'
  BY DEF SpawnsCli, At, Going, Writers, GroupGone, GroupEnded, CliTypeOK, Clis, Guardians, Watches, Startups, WatchFits
<1>3. GuardianFits'
  BY DEF SpawnsCli, At, Going, Writers, GroupGone, GroupEnded, CliTypeOK, Clis, Guardians, Watches, Startups, WatchFits, GuardianFits
<1>4. SaidFits'
  BY DEF SpawnsCli, At, Going, Writers, GroupGone, GroupEnded, CliTypeOK, Clis, Guardians, Watches, Startups, WatchFits, GuardianFits, SaidFits
<1> QED
  BY <1>1, <1>2, <1>3, <1>4

LEMMA SpawnObservedKeeps == ASSUME CliInv, SpawnObserved PROVE CliInv'
<1> USE DEF CliInv
<1>1. CliTypeOK'
  BY DEF SpawnObserved, At, Going, Writers, GroupGone, GroupEnded, CliTypeOK, Watches
<1>2. WatchFits'
  BY DEF SpawnObserved, At, Going, Writers, GroupGone, GroupEnded, CliTypeOK, Clis, Guardians, Watches, Startups, WatchFits
<1>3. GuardianFits'
  BY DEF SpawnObserved, At, Going, Writers, GroupGone, GroupEnded, CliTypeOK, Clis, Guardians, Watches, Startups, WatchFits, GuardianFits
<1>4. SaidFits'
  BY DEF SpawnObserved, At, Going, Writers, GroupGone, GroupEnded, CliTypeOK, Clis, Guardians, Watches, Startups, WatchFits, GuardianFits, SaidFits
<1> QED
  BY <1>1, <1>2, <1>3, <1>4

LEMMA StartsGuardianKeeps == ASSUME CliInv, StartsGuardian PROVE CliInv'
<1> USE DEF CliInv
<1>1. CliTypeOK'
  <2>1. guardian' \in Guardians
    BY DEF StartsGuardian, At, Going, Writers, GroupGone, GroupEnded, CliTypeOK, Guardians
  <2>2. startup' \in Startups
    BY DEF StartsGuardian, At, Going, Writers, GroupGone, GroupEnded, CliTypeOK, Startups
  <2> QED
    BY <2>1, <2>2 DEF StartsGuardian, CliTypeOK
<1>2. WatchFits'
  BY DEF StartsGuardian, At, Going, Writers, GroupGone, GroupEnded, CliTypeOK, Clis, Guardians, Watches, Startups, WatchFits
<1>3. GuardianFits'
  BY ZenonT(60) DEF StartsGuardian, At, Going, Writers, GroupGone, GroupEnded, CliTypeOK, Clis, Guardians, Watches, Startups, WatchFits, GuardianFits
<1>4. SaidFits'
  BY DEF StartsGuardian, At, Going, Writers, GroupGone, GroupEnded, CliTypeOK, Clis, Guardians, Watches, Startups, WatchFits, GuardianFits, SaidFits
<1> QED
  BY <1>1, <1>2, <1>3, <1>4

LEMMA GuardianSpawnedKeeps == ASSUME CliInv, GuardianSpawned PROVE CliInv'
<1> USE DEF CliInv
<1>1. CliTypeOK'
  <2>1. guardian' \in Guardians
    BY DEF GuardianSpawned, At, Going, Writers, GroupGone, GroupEnded, CliTypeOK, Guardians
  <2>2. startup' \in Startups
    BY DEF GuardianSpawned, At, Going, Writers, GroupGone, GroupEnded, CliTypeOK, Startups
  <2> QED
    BY <2>1, <2>2 DEF GuardianSpawned, CliTypeOK
<1>2. WatchFits'
  BY DEF GuardianSpawned, At, Going, Writers, GroupGone, GroupEnded, CliTypeOK, Clis, Guardians, Watches, Startups, WatchFits
<1>3. GuardianFits'
  BY DEF GuardianSpawned, At, Going, Writers, GroupGone, GroupEnded, CliTypeOK, Clis, Guardians, Watches, Startups, WatchFits, GuardianFits
<1>4. SaidFits'
  BY DEF GuardianSpawned, At, Going, Writers, GroupGone, GroupEnded, CliTypeOK, Clis, Guardians, Watches, Startups, WatchFits, GuardianFits, SaidFits
<1> QED
  BY <1>1, <1>2, <1>3, <1>4

LEMMA StartFailsKeeps == ASSUME CliInv, StartFails PROVE CliInv'
<1> USE DEF CliInv
<1>1. CliTypeOK'
  BY DEF StartFails, At, Going, Writers, GroupGone, GroupEnded, CliTypeOK, Startups
<1>2. WatchFits'
  BY DEF StartFails, At, Going, Writers, GroupGone, GroupEnded, CliTypeOK, Clis, Guardians, Watches, Startups, WatchFits
<1>3. GuardianFits'
  BY DEF StartFails, At, Going, Writers, GroupGone, GroupEnded, CliTypeOK, Clis, Guardians, Watches, Startups, WatchFits, GuardianFits
<1>4. SaidFits'
  BY DEF StartFails, At, Going, Writers, GroupGone, GroupEnded, CliTypeOK, Clis, Guardians, Watches, Startups, WatchFits, GuardianFits, SaidFits
<1> QED
  BY <1>1, <1>2, <1>3, <1>4

LEMMA GuardianObservedKeeps == ASSUME CliInv, GuardianObserved PROVE CliInv'
<1> USE DEF CliInv
<1>1. CliTypeOK'
  BY DEF GuardianObserved, At, Going, Writers, GroupGone, GroupEnded, CliTypeOK, Guardians
<1>2. WatchFits'
  BY DEF GuardianObserved, At, Going, Writers, GroupGone, GroupEnded, CliTypeOK, Clis, Guardians, Watches, Startups, WatchFits
<1>3. GuardianFits'
  BY DEF GuardianObserved, At, Going, Writers, GroupGone, GroupEnded, CliTypeOK, Clis, Guardians, Watches, Startups, WatchFits, GuardianFits
<1>4. SaidFits'
  BY DEF GuardianObserved, At, Going, Writers, GroupGone, GroupEnded, CliTypeOK, Clis, Guardians, Watches, Startups, WatchFits, GuardianFits, SaidFits
<1> QED
  BY <1>1, <1>2, <1>3, <1>4

LEMMA StopAnswersKeeps == ASSUME CliInv, StopAnswers PROVE CliInv'
<1> USE DEF CliInv
<1>1. CliTypeOK'
  BY DEF StopAnswers, At, Going, Writers, GroupGone, GroupEnded, Confirmed, FullClosure, CliTypeOK, Clis, Guardians, Watches, Startups
<1>2. WatchFits'
  BY DEF StopAnswers, At, Going, Writers, GroupGone, GroupEnded, Confirmed, FullClosure, CliTypeOK, Clis, Guardians, Watches, Startups, WatchFits
<1>3. GuardianFits'
  BY DEF StopAnswers, At, Going, Writers, GroupGone, GroupEnded, Confirmed, FullClosure, CliTypeOK, Clis, Guardians, Watches, Startups, WatchFits, GuardianFits
<1>4. SaidFits'
  BY DEF StopAnswers, At, Going, Writers, GroupGone, GroupEnded, Confirmed, FullClosure, CliTypeOK, Clis, Guardians, Watches, Startups, WatchFits, GuardianFits, SaidFits
<1> QED
  BY <1>1, <1>2, <1>3, <1>4

LEMMA ExitObservedKeeps == ASSUME CliInv, ExitObserved PROVE CliInv'
<1> USE DEF CliInv
<1>1. /\ watch' \in Watches /\ cli' \in Clis
      /\ watch'.spawned = watch.spawned /\ watch'.failed = watch.failed
      /\ watch'.exited = TRUE /\ watch'.stdio = watch.stdio
      /\ watch'.stopReason = watch.stopReason /\ watch'.natural = ~watch.stopReason
      /\ watch'.outcome = watch.outcome
      /\ watch'.term = "done" => watch.term = "done" \/ (GroupGone /\ watch'.exited)
      /\ watch.term # "none" => watch'.term = watch.term
      /\ cli'.leader = cli.leader /\ cli'.kids = cli.kids
  <2> DEFINE w == [watch EXCEPT !.exited = TRUE, !.natural = ~watch.stopReason]
  <2>1. /\ w \in Watches /\ cli \in Clis
        /\ w.spawned = watch.spawned /\ w.failed = watch.failed
        /\ w.exited = TRUE /\ w.stdio = watch.stdio
        /\ w.stopReason = watch.stopReason /\ w.natural = ~watch.stopReason
        /\ w.outcome = watch.outcome /\ w.term = watch.term
    BY DEF CliTypeOK, Watches
  <2>2. Terminating(w)
    BY DEF ExitObserved, At
  <2> HIDE DEF w
  <2> QED
    BY <2>1, <2>2, TerminatingFacts
<1>2. CliTypeOK'
  BY <1>1 DEF ExitObserved, CliTypeOK
<1>3. WatchFits'
  BY <1>1 DEF ExitObserved, At, Going, WatchFits, GroupGone, GroupEnded, CliTypeOK, Startups
<1>4. GuardianFits'
  BY <1>1 DEF ExitObserved, At, Going, GuardianFits, Writers, CliTypeOK, Startups
<1>5. SaidFits'
  BY <1>1 DEF ExitObserved, At, Going, SaidFits, WatchFits, GroupEnded, Writers, CliTypeOK, Startups, Watches
<1> QED
  BY <1>2, <1>3, <1>4, <1>5

LEMMA CloseObservedKeeps == ASSUME CliInv, CloseObserved PROVE CliInv'
<1> USE DEF CliInv
<1>1. /\ watch' \in Watches /\ cli' \in Clis
      /\ watch'.spawned = watch.spawned /\ watch'.failed = watch.failed
      /\ watch'.exited = watch.exited /\ watch'.stdio = TRUE
      /\ watch'.stopReason = watch.stopReason /\ watch'.natural = watch.natural
      /\ watch'.outcome = watch.outcome
      /\ watch'.term = "done" => watch.term = "done" \/ (GroupGone /\ watch'.exited)
      /\ watch.term # "none" => watch'.term = watch.term
      /\ cli'.leader = cli.leader /\ cli'.kids = cli.kids
  <2> DEFINE w == [watch EXCEPT !.stdio = TRUE]
  <2>1. /\ w \in Watches /\ cli \in Clis
        /\ w.spawned = watch.spawned /\ w.failed = watch.failed
        /\ w.exited = watch.exited /\ w.stdio = TRUE
        /\ w.stopReason = watch.stopReason /\ w.natural = watch.natural
        /\ w.outcome = watch.outcome /\ w.term = watch.term
    BY DEF CliTypeOK, Watches
  <2>2. Terminating(w)
    BY DEF CloseObserved, At
  <2> HIDE DEF w
  <2> QED
    BY <2>1, <2>2, TerminatingFacts
<1>2. CliTypeOK'
  BY <1>1 DEF CloseObserved, CliTypeOK
<1>3. WatchFits'
  BY <1>1 DEF CloseObserved, At, Going, WatchFits, GroupGone, GroupEnded, CliTypeOK, Startups
<1>4. GuardianFits'
  BY <1>1 DEF CloseObserved, At, Going, GuardianFits, Writers, CliTypeOK, Startups
<1>5. SaidFits'
  BY <1>1 DEF CloseObserved, At, Going, SaidFits, WatchFits, GroupEnded, Writers, CliTypeOK, Startups, Watches
<1> QED
  BY <1>2, <1>3, <1>4, <1>5

\* A stop that is asked for ends the group, or has nothing left to end.
StopReached ==
  /\ watch' \in Watches /\ cli' \in Clis
  /\ watch'.spawned = watch.spawned /\ watch'.failed = watch.failed
  /\ watch'.exited = watch.exited /\ watch'.stdio = watch.stdio
  /\ watch'.natural = watch.natural /\ watch'.outcome = watch.outcome
  /\ watch'.term = "done" => watch.term = "done" \/ (GroupGone /\ watch.exited)
  /\ watch.term # "none" => watch'.term = watch.term
  /\ cli'.leader = cli.leader /\ cli'.kids = cli.kids

LEMMA StopReaches ==
  ASSUME CliTypeOK,
         \/ Terminating([watch EXCEPT !.stopReason = TRUE])
         \/ watch' = [watch EXCEPT !.stopReason = TRUE] /\ UNCHANGED cli
         \/ UNCHANGED <<cli, watch>>
  PROVE  StopReached
<1> DEFINE w == [watch EXCEPT !.stopReason = TRUE]
<1>1. /\ w \in Watches /\ cli \in Clis /\ watch \in Watches
      /\ w.spawned = watch.spawned /\ w.failed = watch.failed
      /\ w.exited = watch.exited /\ w.stdio = watch.stdio
      /\ w.natural = watch.natural
      /\ w.outcome = watch.outcome /\ w.term = watch.term
  BY DEF CliTypeOK, Watches
<1>2. CASE Terminating(w)
  <2> HIDE DEF w
  <2> QED
    BY <1>1, <1>2, TerminatingFacts DEF StopReached
<1>3. CASE watch' = w /\ UNCHANGED cli
  BY <1>1, <1>3 DEF StopReached
<1>4. CASE UNCHANGED <<cli, watch>>
  BY <1>1, <1>4 DEF StopReached
<1> QED
  BY <1>2, <1>3, <1>4

LEMMA StartupAbortsKeeps == ASSUME CliInv, StartupAborts PROVE CliInv'
<1> USE DEF CliInv
<1>1. StopReached
  BY StopReaches DEF StartupAborts, StopBegins
<1>2. CliTypeOK'
  BY <1>1 DEF StartupAborts, At, Going, CliTypeOK, Startups, StopReached
<1>3. WatchFits'
  BY <1>1 DEF StartupAborts, At, Going, StopReached, WatchFits, GroupGone, GroupEnded, CliTypeOK, Startups
<1>4. GuardianFits'
  BY <1>1 DEF StartupAborts, At, Going, StopReached, GuardianFits, Writers, CliTypeOK, Startups
<1>5. SaidFits'
  <2>1. \/ startup'.abort \/ guardian.failed \/ ~owned \/ ~watch.natural
        \/ watch' = watch
    BY DEF StartupAborts, At, Going, WatchFits, CliTypeOK, Startups
  <2> QED
    BY <1>1, <2>1 DEF StartupAborts, At, Going, StopReached, SaidFits, WatchFits, GroupEnded, Writers, CliTypeOK, Startups, Watches
<1> QED
  BY <1>2, <1>3, <1>4, <1>5

LEMMA GuardianFailsKeeps == ASSUME CliInv, GuardianFails PROVE CliInv'
<1> USE DEF CliInv
<1>1. StopReached
  BY StopReaches DEF GuardianFails, StopBegins
<1>2. CliTypeOK'
  BY <1>1 DEF GuardianFails, At, Going, CliTypeOK, Startups, StopReached
<1>3. WatchFits'
  BY <1>1 DEF GuardianFails, At, Going, StopReached, WatchFits, GroupGone, GroupEnded, CliTypeOK, Startups
<1>4. GuardianFits'
  BY <1>1 DEF GuardianFails, At, Going, StopReached, GuardianFits, Writers, CliTypeOK, Startups
<1>5. SaidFits'
  <2>1. \/ startup'.abort \/ guardian.failed \/ ~owned \/ ~watch.natural
        \/ watch' = watch
    BY DEF GuardianFails, At, Going, WatchFits, CliTypeOK, Startups
  <2> QED
    BY <1>1, <2>1 DEF GuardianFails, At, Going, StopReached, SaidFits, WatchFits, GroupEnded, Writers, CliTypeOK, Startups, Watches
<1> QED
  BY <1>2, <1>3, <1>4, <1>5

LEMMA StopAskedKeeps == ASSUME CliInv, StopAsked PROVE CliInv'
<1> USE DEF CliInv
<1>1. StopReached
  BY StopReaches DEF StopAsked, StopBegins
<1>2. CliTypeOK'
  BY <1>1 DEF StopAsked, StopBegins, CliTypeOK, StopReached
<1>3. WatchFits'
  BY <1>1 DEF StopAsked, StopBegins, StopReached, WatchFits, GroupGone, GroupEnded, CliTypeOK, Startups
<1>4. GuardianFits'
  BY <1>1 DEF StopAsked, StopBegins, StopReached, GuardianFits, Writers, CliTypeOK, Startups
<1>5. SaidFits'
  <2>1. \/ startup'.abort \/ guardian.failed \/ ~owned \/ ~watch.natural
        \/ watch' = watch
    BY DEF StopAsked, StopBegins, WatchFits, CliTypeOK, Startups
  <2> QED
    BY <1>1, <2>1 DEF StopAsked, StopBegins, StopReached, SaidFits, WatchFits, GroupEnded, Writers, CliTypeOK, Startups, Watches
<1> QED
  BY <1>2, <1>3, <1>4, <1>5

LEMMA ReceiptAskedKeeps == ASSUME CliInv, ReceiptAsked PROVE CliInv'
<1> USE DEF CliInv
<1>1. StopReached
  BY StopReaches DEF ReceiptAsked, StopBegins
<1>2. CliTypeOK'
  BY <1>1 DEF ReceiptAsked, At, StopBegins, CliTypeOK, StopReached
<1>3. WatchFits'
  BY <1>1 DEF ReceiptAsked, At, StopBegins, StopReached, WatchFits, GroupGone, GroupEnded, CliTypeOK, Startups
<1>4. GuardianFits'
  BY <1>1 DEF ReceiptAsked, At, StopBegins, StopReached, GuardianFits, Writers, CliTypeOK, Startups
<1>5. SaidFits'
  <2>1. \/ startup'.abort \/ guardian.failed \/ ~owned \/ ~watch.natural
        \/ watch' = watch
    BY DEF ReceiptAsked, At, StopBegins, WatchFits, CliTypeOK, Startups
  <2> QED
    BY <1>1, <2>1 DEF ReceiptAsked, At, StopBegins, StopReached, SaidFits, WatchFits, GroupEnded, Writers, CliTypeOK, Startups, Watches
<1> QED
  BY <1>2, <1>3, <1>4, <1>5

\* The inductive invariant of one agent and its adapter (process-adapter.ts).
THEOREM CliInvHoldsAlways == CliSpec => []CliInv
<1>1. CliInv /\ CliNext => CliInv'
  <2> SUFFICES ASSUME CliInv, CliNext PROVE CliInv'
    OBVIOUS
  <2> QED
    BY ForksKeeps, LeaderEndsKeeps, KidsEndKeeps, GuardianKillsKeeps,
       GuardianEndsKeeps, DaemonCrashesKeeps, TerminationEndsKeeps,
       ExitObservedKeeps, CloseObservedKeeps, FinishesKeeps, StartupAbortsKeeps,
       PreparationFailsKeeps, SpawnsCliKeeps, SpawnObservedKeeps,
       StartsGuardianKeeps, GuardianSpawnedKeeps, GuardianFailsKeeps,
       StartFailsKeeps, GuardianObservedKeeps, StopAskedKeeps, ReceiptAskedKeeps,
       StopAnswersKeeps DEF CliNext
<1>2. CliInv /\ UNCHANGED cliVars => CliInv'
  BY DEF cliVars, CliInv, CliTypeOK, WatchFits, GuardianFits, SaidFits, GroupGone, GroupEnded,
         Writers
<1>3. CliInit => CliInv
  BY CliInitOK
<1> QED
  BY <1>1, <1>2, <1>3, PTL DEF CliSpec

\* What the adapter says of an agent is true of the processes: no outcome and no
\* confirmed stop while anything of it can write, none unguarded once start has
\* returned, and a natural end is not turned into a cancellation
\* (process-adapter.ts).
THEOREM CliIsSafe == CliSpec => []CliHolds
<1>1. CliInv => CliHolds
  BY CliInvHolds
<1> QED
  BY <1>1, CliInvHoldsAlways, PTL

-------------------------------------------------------------------------------
(* A run of Git: the invariant *)

GroupStates == {"not-launched", "present", "absent", "unknown"}
GitReasons ==
  {"none", "spawn_failed", "signaled", "lingering_group", "aborted", "timeout",
   "stream_failed", "output_limit"}

GitTypeOK ==
  /\ gitChild \in {"none", "alive", "dead"}
  /\ helper \in {"none", "alive", "holding", "dead"}
  /\ started \in {"no", "failed", "pid"}
  /\ spawned \in BOOLEAN /\ exited \in {"no", "code", "signal"} /\ closed \in BOOLEAN
  /\ group \in GroupStates /\ trigger \in GitReasons
  /\ ending \in BOOLEAN /\ termSent \in BOOLEAN /\ killSent \in BOOLEAN
  /\ draining \in BOOLEAN /\ outputCut \in BOOLEAN
  /\ settled \in {"no", "ok", "error"} /\ confirmed \in BOOLEAN

\* What was observed has happened: events come of a process that is there, and a
\* group seen absent stays so.
GitSeenIsTrue ==
  /\ gitChild = "none" <=> started # "pid"
  /\ gitChild = "none" => helper = "none"
  /\ spawned => started = "pid"
  /\ group # "not-launched" => spawned
  /\ exited # "no" => spawned
  /\ group = "absent" => gitChild = "dead" /\ ~HelperAlive

\* Only a normal exit drains, and a verdict is of a call that began.
GitDrainsInOrder ==
  /\ draining => trigger = "none" /\ exited = "code"
  /\ settled # "no" => started # "no"
  /\ confirmed => settled # "no"

GitInv == GitTypeOK /\ GitSeenIsTrue /\ GitDrainsInOrder /\ GitVerdictTrue

LEMMA GitInitOK == GitInit => GitInv
BY DEF GitInit, GitInv, GitTypeOK, GitSeenIsTrue, GitDrainsInOrder, GitVerdictTrue,
       GroupStates, GitReasons, GroupAlive, HelperAlive

\* The processes themselves.
LEMMA GitWorldKeeps ==
  ASSUME GitInv, Spawn \/ LeavesHelper \/ GitEnds \/ HelperEnds
  PROVE  GitInv'
<1> USE DEF GitInv, GitTypeOK, GitSeenIsTrue, GitDrainsInOrder, GitVerdictTrue,
            GroupStates, GitReasons, GroupAlive, HelperAlive,
            seenVars, endVars
<1>1. CASE Spawn
  <2>1. /\ started = "no" /\ gitChild = "none" /\ helper = "none" /\ settled = "no"
        /\ ~spawned /\ exited = "no" /\ group = "not-launched" /\ ~draining /\ ~confirmed
    BY <1>1 DEF Spawn
  <2>2. CASE started' = "pid"
    BY <1>1, <2>1, <2>2 DEF Spawn
  <2>3. CASE started' = "failed" /\ UNCHANGED <<gitChild, settled, confirmed, trigger>>
    BY <1>1, <2>1, <2>3 DEF Spawn
  <2>4. CASE /\ started' = "failed" /\ trigger' = "spawn_failed"
             /\ settled' = "error" /\ confirmed' /\ gitChild' = gitChild
    BY <1>1, <2>1, <2>4 DEF Spawn
  <2> QED
    BY <1>1, <2>2, <2>3, <2>4 DEF Spawn
<1>2. CASE LeavesHelper
  BY <1>2 DEF LeavesHelper
<1>3. CASE GitEnds
  BY <1>3 DEF GitEnds
<1>4. CASE HelperEnds
  BY <1>4 DEF HelperEnds
<1> QED
  BY <1>1, <1>2, <1>3, <1>4

\* What a poll of the end needs to find, and what it leaves.
PollStart ==
  /\ GitTypeOK /\ Observing /\ settled = "no" /\ ~confirmed
  /\ gitChild' = gitChild /\ helper' = helper /\ started' = started
  /\ spawned' \in BOOLEAN /\ exited' \in {"no", "code", "signal"} /\ closed' \in BOOLEAN
  /\ outputCut' \in BOOLEAN
  /\ GitSeenIsTrue
  /\ spawned' => started = "pid"
  /\ spawned => spawned'
  /\ exited' # "no" => spawned'
PollResult ==
  /\ group' \in GroupStates
  /\ termSent' \in BOOLEAN /\ killSent' \in BOOLEAN
  /\ settled' \in {"no", "ok", "error"} /\ confirmed' \in BOOLEAN
  /\ group' # "not-launched" => spawned'
  /\ group' = "absent" => gitChild = "dead" /\ ~HelperAlive
  /\ confirmed' => settled' # "no" /\ ~GroupAlive

LEMMA GitPollEnds ==
  ASSUME PollStart, NEW killDue \in BOOLEAN, NEW over \in BOOLEAN,
         PollCleanup(killDue, over)
  PROVE  PollResult /\ settled' # "ok"
<1> USE DEF PollStart, GitTypeOK, GitSeenIsTrue, GroupStates, Observing,
            GroupAlive, HelperAlive
<1>1. PICK g \in GroupStates :
        /\ IF spawned' THEN Probed(g) ELSE g = group
        /\ group' = g
        /\ IF \/ started' = "failed" /\ closed'
              \/ exited' # "no" /\ closed' /\ g = "absent"
              \/ over
             THEN Settle("error") /\ UNCHANGED <<termSent, killSent>>
             ELSE /\ termSent' = (termSent \/ spawned')
                  /\ killSent' = (killSent \/ (spawned' /\ killDue))
                  /\ UNCHANGED <<settled, confirmed>>
  BY DEF PollCleanup
<1>2. /\ group' \in GroupStates
      /\ group' # "not-launched" => spawned'
      /\ group' = "absent" => gitChild = "dead" /\ ~HelperAlive
  BY <1>1 DEF Probed
<1>3. termSent' \in BOOLEAN /\ killSent' \in BOOLEAN
  BY <1>1
<1>4. /\ settled' \in {"no", "error"} /\ confirmed' \in BOOLEAN
      /\ confirmed' => settled' # "no" /\ ~GroupAlive
  BY <1>1, <1>2 DEF Settle, CleanupConfirmed
<1> QED
  BY <1>2, <1>3, <1>4 DEF PollResult

LEMMA GitDrains ==
  ASSUME PollStart, spawned', NEW late \in BOOLEAN, Drained(late),
         trigger = "none", exited' = "code"
  PROVE  /\ PollResult
         /\ ending' \in BOOLEAN /\ draining' \in BOOLEAN /\ trigger' \in GitReasons
         /\ draining' => trigger' = "none"
         /\ settled' = "ok" => trigger' = "none" /\ confirmed'
<1> USE DEF PollStart, GitTypeOK, GitSeenIsTrue, GroupStates, Observing,
            GroupAlive, HelperAlive, GitReasons, Drained, Probed, Settle, CleanupConfirmed,
            PollResult
<1>1. CASE late
  BY <1>1
<1>2. CASE ~late
  BY <1>2
<1> QED
  BY <1>1, <1>2

LEMMA GitTerminates ==
  ASSUME PollStart, NEW reason \in GitReasons \ {"none"}, Terminate(reason)
  PROVE  /\ PollResult /\ settled' # "ok"
         /\ ending' \in BOOLEAN /\ draining' = FALSE /\ trigger' \in GitReasons
BY GitPollEnds DEF Terminate, PollStart, GitTypeOK, GitSeenIsTrue, PollResult, Observing

\* What is left of the invariant when a poll is over.
LEMMA GitPolled ==
  ASSUME GitInv, PollStart, PollResult,
         ending' \in BOOLEAN, draining' \in BOOLEAN, trigger' \in GitReasons,
         draining' => trigger' = "none" /\ exited' = "code",
         settled' = "ok" => trigger' = "none" /\ exited' = "code" /\ confirmed'
  PROVE  GitInv'
<1>1. GitTypeOK'
  BY DEF GitInv, GitTypeOK, PollStart, PollResult
<1>2. GitSeenIsTrue'
  BY DEF GitInv, GitSeenIsTrue, PollStart, PollResult, HelperAlive
<1>3. GitDrainsInOrder'
  BY DEF GitInv, GitDrainsInOrder, PollStart, PollResult, Observing
<1>4. GitVerdictTrue'
  BY DEF GitInv, GitVerdictTrue, PollStart, PollResult, GroupAlive, HelperAlive
<1> QED
  BY <1>1, <1>2, <1>3, <1>4 DEF GitInv

\* The observations and the timers.
LEMMA GitSeesKeeps ==
  ASSUME GitInv,
         \/ OnSpawn \/ OnChildError
         \/ \E late \in BOOLEAN : OnExit(late) \/ OnClose(late) \/ PollDrain(late)
         \/ \E reason \in {"aborted", "timeout", "stream_failed", "output_limit"} : Fail(reason)
         \/ \E killDue, over \in BOOLEAN : PollEnd(killDue, over)
  PROVE  GitInv'
<1> USE DEF GitInv, GitTypeOK, GitSeenIsTrue, GitDrainsInOrder, GitVerdictTrue,
            worldVars, seenVars, Observing, GroupAlive, HelperAlive
<1>1. CASE OnSpawn
  <2>1. PollStart
    BY <1>1 DEF OnSpawn, PollStart
  <2>2. CASE trigger # "none"
    BY <1>1, <2>1, <2>2, GitPollEnds, GitPolled DEF OnSpawn
  <2>3. CASE trigger = "none"
    BY <1>1, <2>3 DEF OnSpawn, GroupStates
  <2> QED
    BY <2>2, <2>3
<1>2. CASE OnChildError
  BY <1>2, GitTerminates, GitPolled DEF OnChildError, PollStart, GitReasons
<1>3. ASSUME NEW late \in BOOLEAN, OnExit(late) PROVE GitInv'
  <2>1. PollStart
    BY <1>3 DEF OnExit, PollStart
  <2>2. CASE trigger # "none"
    BY <1>3, <2>2 DEF OnExit
  <2>3. CASE trigger = "none" /\ exited' = "signal"
    BY <1>3, <2>1, <2>3, GitTerminates, GitPolled DEF OnExit, GitReasons
  <2>4. CASE trigger = "none" /\ exited' # "signal"
    BY <1>3, <2>1, <2>4, GitDrains, GitPolled DEF OnExit
  <2> QED
    BY <2>2, <2>3, <2>4
<1>4. ASSUME NEW late \in BOOLEAN, OnClose(late) PROVE GitInv'
  <2>1. PollStart
    BY <1>4 DEF OnClose, PollStart
  <2>2. CASE ending
    BY <1>4, <2>1, <2>2, GitPollEnds, GitPolled DEF OnClose
  <2>3. CASE ~ending /\ draining
    BY <1>4, <2>1, <2>3, GitDrains, GitPolled DEF OnClose
  <2>4. CASE ~ending /\ ~draining
    BY <1>4, <2>1, <2>4, GitTerminates, GitPolled DEF OnClose, GitReasons
  <2> QED
    BY <2>2, <2>3, <2>4
<1>5. ASSUME NEW late \in BOOLEAN, PollDrain(late) PROVE GitInv'
  BY <1>5, GitDrains, GitPolled DEF PollDrain, PollStart
<1>6. ASSUME NEW reason \in {"aborted", "timeout", "stream_failed", "output_limit"}, Fail(reason)
      PROVE  GitInv'
  BY <1>6, GitTerminates, GitPolled DEF Fail, PollStart, GitReasons
<1>7. ASSUME NEW killDue \in BOOLEAN, NEW over \in BOOLEAN, PollEnd(killDue, over)
      PROVE  GitInv'
  BY <1>7, GitPollEnds, GitPolled DEF PollEnd, PollStart
<1> QED
  BY <1>1, <1>2, <1>3, <1>4, <1>5, <1>6, <1>7

LEMMA GitKeeps == ASSUME GitInv, [GitNext]_gitVars PROVE GitInv'
<1>1. CASE GitNext
  BY <1>1, GitWorldKeeps, GitSeesKeeps DEF GitNext
<1>2. CASE UNCHANGED gitVars
  BY <1>2 DEF gitVars, worldVars, seenVars, endVars, GitInv, GitTypeOK, GitSeenIsTrue,
              GitDrainsInOrder, GitVerdictTrue, GroupAlive, HelperAlive
<1> QED
  BY <1>1, <1>2

-------------------------------------------------------------------------------
(* The worktree: the invariant *)

WorkStages ==
  {"idle", "namespace", "provisioned", "preflight", "preparing", "prepared", "claiming",
   "reserved", "materializing", "adding", "verifying", "materialized", "created",
   "written", "ready", "launching", "launched", "failed"}
Unclaimed ==
  {"idle", "namespace", "provisioned", "preflight", "preparing", "prepared", "claiming"}
CheckedOut ==
  {"verifying", "materialized", "created", "written", "ready", "launching", "launched"}
Contexted == {"created", "written", "ready", "launching", "launched"}

WorkContexts == {NoFile} \cup [id : Nat \ {0}, bytes : {"none", "written", "other"}]
WorkRoots ==
  {NoRoot} \cup
  [id : Nat \ {0}, by : WorkAttempts \cup {"git", "others"}, of : WorkAttempts \cup {"none"},
   has : {"nothing", "checkout", "other"}, onBranch : BOOLEAN, file : WorkContexts]

WorkTypeOK ==
  /\ container \in Nat /\ root \in WorkRoots /\ ids \in Nat
  /\ branchAt \in Nat /\ source \in Nat /\ registry \in BOOLEAN
  /\ at \in [WorkAttempts -> WorkStages]
  /\ handle \in [WorkAttempts -> [container : Nat, target : Nat, file : Nat, commit : Nat]]
  /\ adding \in [WorkAttempts -> {"no", "asked", "branched", "done", "failed"}]
  /\ meddled \in Nat

\* Identities are given once.
IdsAreGiven ==
  /\ root.id <= ids
  /\ \A a \in WorkAttempts : handle[a].target <= ids

\* The directory an attempt remembers was made by it, and holds what its Git put
\* there once that is done.
RootsAreKnown ==
  \A a \in WorkAttempts :
    handle[a].target # 0 /\ root.id = handle[a].target =>
      /\ root.by = a
      /\ adding[a] = "done" => root.of = a /\ root.has # "nothing"

\* What an attempt remembers at each stage.
StagesFit ==
  \A a \in WorkAttempts :
    /\ at[a] \notin Unclaimed \cup {"failed"} => handle[a].target # 0
    /\ at[a] \in Unclaimed \cup {"reserved", "materializing"} => adding[a] = "no"
    /\ at[a] \in CheckedOut => adding[a] = "done"
    /\ at[a] \in Contexted => handle[a].file # 0

WorkInv == WorkTypeOK /\ IdsAreGiven /\ RootsAreKnown /\ StagesFit

LEMMA WorkInitOK == WorkInit => WorkInv
<1> SUFFICES ASSUME WorkInit PROVE WorkInv
  OBVIOUS
<1>1. WorkTypeOK
  <2>1. /\ at \in [WorkAttempts -> WorkStages]
        /\ handle \in [WorkAttempts -> [container : Nat, target : Nat, file : Nat, commit : Nat]]
        /\ adding \in [WorkAttempts -> {"no", "asked", "branched", "done", "failed"}]
    BY DEF WorkInit, WorkStages
  <2>2. container \in Nat /\ ids \in Nat /\ branchAt \in Nat /\ source \in Nat /\ meddled \in Nat
    BY DEF WorkInit
  <2>3. root \in WorkRoots
    BY DEF WorkInit, WorkRoots
  <2>4. registry \in BOOLEAN
    BY DEF WorkInit
  <2> QED
    BY <2>1, <2>2, <2>3, <2>4 DEF WorkTypeOK
<1>2. IdsAreGiven /\ RootsAreKnown
  BY DEF WorkInit, IdsAreGiven, RootsAreKnown, NoRoot
<1>3. StagesFit
  BY DEF WorkInit, StagesFit, Unclaimed, CheckedOut, Contexted
<1> QED
  BY <1>1, <1>2, <1>3 DEF WorkInv

\* A stage of an attempt that only looks.
OnlyLooks(a) ==
  \/ ProvisionEnds(a) \/ PreflightEnds(a) \/ Prepare(a) \/ Recheck(a) \/ Materialize(a)
  \/ AddEnds(a) \/ VerifyWorktree(a) \/ CheckContext(a) \/ CheckLaunch(a) \/ LaunchInRoot(a)

LEMMA LooksKeep ==
  ASSUME WorkInv, NEW a \in WorkAttempts, OnlyLooks(a)
  PROVE  WorkInv'
<1> USE DEF WorkInv
<1>1. /\ UNCHANGED <<container, root, ids, branchAt, registry, handle, adding, source, meddled>>
      /\ at \in [WorkAttempts -> WorkStages]
  BY DEF OnlyLooks, ProvisionEnds, PreflightEnds, Prepare, Recheck, Materialize, AddEnds,
         VerifyWorktree, CheckContext, CheckLaunch, LaunchInRoot, Goes, WorkTypeOK
<1>2. PICK from, to \in WorkStages :
        /\ at[a] = from /\ at' = [at EXCEPT ![a] = to]
        /\ \/ from \in Unclaimed /\ to \in Unclaimed
           \/ from = "reserved" /\ to = "materializing"
           \/ from = "adding" /\ to = "verifying" /\ adding[a] = "done"
           \/ from = "verifying" /\ to = "materialized"
           \/ from \in Contexted /\ to \in Contexted
  BY DEF OnlyLooks, ProvisionEnds, PreflightEnds, Prepare, Recheck, Materialize, AddEnds,
         VerifyWorktree, CheckContext, CheckLaunch, LaunchInRoot, Goes, WorkStages,
         Unclaimed, Contexted
<1>3. WorkTypeOK' /\ IdsAreGiven' /\ RootsAreKnown'
  BY <1>1, <1>2 DEF WorkTypeOK, IdsAreGiven, RootsAreKnown
<1>4. StagesFit'
  BY <1>1, <1>2 DEF StagesFit, Unclaimed, CheckedOut, Contexted
<1> QED
  BY <1>3, <1>4

\* The stages that leave something behind.
LEMMA ProvisionKeeps ==
  ASSUME WorkInv, NEW a \in WorkAttempts, Provision(a) \/ Preflight(a)
  PROVE  WorkInv'
<1> USE DEF WorkInv
<1>1. /\ UNCHANGED <<root, branchAt, registry, adding, source, meddled>>
      /\ ids' \in Nat /\ ids' >= ids /\ container' \in Nat
  BY DEF Provision, Preflight, Goes, WorkTypeOK
<1>2. /\ handle' \in [WorkAttempts -> [container : Nat, target : Nat, file : Nat, commit : Nat]]
      /\ \A b \in WorkAttempts : handle'[b].target = handle[b].target
      /\ \A b \in WorkAttempts : handle'[b].file = handle[b].file
  <2>1. CASE Provision(a)
    BY <2>1, <1>1 DEF Provision, WorkTypeOK
  <2>2. CASE Preflight(a)
    BY <2>2, ZenonT(40) DEF Preflight, WorkTypeOK
  <2> QED
    BY <2>1, <2>2
<1>3. PICK from, to \in Unclaimed : at[a] = from /\ at' = [at EXCEPT ![a] = to]
  BY DEF Provision, Preflight, Goes, Unclaimed
<1>4. WorkTypeOK'
  BY <1>1, <1>2, <1>3 DEF WorkTypeOK, WorkStages, Unclaimed
<1>5. IdsAreGiven' /\ RootsAreKnown'
  BY <1>1, <1>2 DEF IdsAreGiven, RootsAreKnown, WorkTypeOK, WorkRoots, NoRoot
<1>6. StagesFit'
  BY <1>1, <1>2, <1>3 DEF StagesFit, Unclaimed, CheckedOut, Contexted, WorkTypeOK
<1> QED
  BY <1>4, <1>5, <1>6

LEMMA ClaimKeeps ==
  ASSUME WorkInv, NEW a \in WorkAttempts, ClaimRoot(a)
  PROVE  WorkInv'
<1> USE DEF WorkInv
<1>1. /\ UNCHANGED <<container, branchAt, registry, adding, source, meddled>>
      /\ at[a] = "claiming" /\ at' = [at EXCEPT ![a] = "reserved"]
      /\ ids' = ids + 1 /\ root' = NewRoot(ids + 1, a)
      /\ handle' = [handle EXCEPT ![a].target = ids + 1]
  BY DEF ClaimRoot, Goes, MakeRoot, NewRoot
<1>2. root' \in WorkRoots /\ root'.id = ids + 1 /\ root'.by = a
  BY <1>1 DEF WorkTypeOK, WorkRoots, NewRoot, WorkContexts
<1>3. handle' \in [WorkAttempts -> [container : Nat, target : Nat, file : Nat, commit : Nat]]
  BY <1>1 DEF WorkTypeOK
<1>4. /\ handle'[a].target = ids + 1
      /\ \A b \in WorkAttempts : b # a => handle'[b] = handle[b]
      /\ \A b \in WorkAttempts : handle'[b].file = handle[b].file
  BY <1>1 DEF WorkTypeOK
<1>5. WorkTypeOK'
  BY <1>1, <1>2, <1>3 DEF WorkTypeOK, WorkStages
<1>6. IdsAreGiven'
  BY <1>1, <1>2, <1>3, <1>4 DEF IdsAreGiven, WorkTypeOK
<1>7. adding[a] = "no"
  BY <1>1 DEF StagesFit, Unclaimed
<1>8. RootsAreKnown'
  BY <1>1, <1>2, <1>4, <1>7 DEF RootsAreKnown, IdsAreGiven, WorkTypeOK
<1>9. StagesFit'
  BY <1>1, <1>4, <1>7 DEF StagesFit, Unclaimed, CheckedOut, Contexted, WorkTypeOK
<1> QED
  BY <1>5, <1>6, <1>8, <1>9

LEMMA AddKeeps ==
  ASSUME WorkInv, NEW a \in WorkAttempts, AddWorktree(a) \/ AttemptFails(a)
  PROVE  WorkInv'
<1> USE DEF WorkInv
<1>1. UNCHANGED <<container, root, ids, branchAt, registry, handle, source, meddled>>
  BY DEF AddWorktree, AttemptFails, Goes, diskVars
<1>2. /\ \/ at[a] = "materializing" /\ at' = [at EXCEPT ![a] = "adding"]
         \/ at' = [at EXCEPT ![a] = "failed"]
      /\ \/ adding' = adding
         \/ adding' = [adding EXCEPT ![a] = "asked"]
         \/ adding' = [adding EXCEPT ![a] = "failed"]
  BY DEF AddWorktree, AttemptFails, Goes
<1>3. WorkTypeOK'
  BY <1>1, <1>2 DEF WorkTypeOK, WorkStages
<1>4. IdsAreGiven'
  BY <1>1 DEF IdsAreGiven
<1>5. RootsAreKnown'
  BY <1>1, <1>2 DEF RootsAreKnown, WorkTypeOK
<1>6. StagesFit'
  BY <1>1, <1>2 DEF StagesFit, Unclaimed, CheckedOut, Contexted, WorkTypeOK
<1> QED
  BY <1>3, <1>4, <1>5, <1>6

LEMMA ContextKeeps ==
  ASSUME WorkInv, NEW a \in WorkAttempts, CreateContext(a) \/ WriteContext(a)
  PROVE  WorkInv'
<1> USE DEF WorkInv
<1>1. /\ UNCHANGED <<container, branchAt, registry, adding, source, meddled>>
      /\ root.id = handle[a].target /\ handle[a].target # 0 /\ root # NoRoot
      /\ ids' \in Nat /\ ids' >= ids
  BY DEF CreateContext, WriteContext, Goes, Verified, SameTarget, StagesFit, WorkTypeOK,
         Unclaimed, NoRoot
<1>2. /\ root' \in WorkRoots
      /\ root'.id = root.id /\ root'.by = root.by /\ root'.of = root.of /\ root'.has = root.has
  <2>1. CASE CreateContext(a)
    BY <1>1, <2>1, SMTT(30) DEF CreateContext, WorkTypeOK, WorkRoots, WorkContexts
  <2>2. CASE WriteContext(a)
    <3>1. root.file \in [id : Nat \ {0}, bytes : {"none", "written", "other"}]
      BY <1>1, <2>2 DEF WriteContext, Goes, StagesFit, Contexted, WorkTypeOK, WorkRoots,
                        WorkContexts, NoFile
    <3> QED
      BY <1>1, <2>2, <3>1 DEF WriteContext, WorkTypeOK, WorkRoots, WorkContexts
  <2> QED
    BY <2>1, <2>2
<1>3. /\ handle' \in [WorkAttempts -> [container : Nat, target : Nat, file : Nat, commit : Nat]]
      /\ \A b \in WorkAttempts : handle'[b].target = handle[b].target
      /\ \A b \in WorkAttempts : handle[b].file # 0 => handle'[b].file # 0
      /\ handle'[a].file # 0
  BY DEF CreateContext, WriteContext, Goes, WorkTypeOK, StagesFit, Contexted
<1>4. \/ at[a] = "materialized" /\ at' = [at EXCEPT ![a] = "created"]
      \/ at[a] = "created" /\ at' = [at EXCEPT ![a] = "written"]
  BY DEF CreateContext, WriteContext, Goes
<1>5. WorkTypeOK'
  BY <1>1, <1>2, <1>3, <1>4 DEF WorkTypeOK, WorkStages
<1>6. IdsAreGiven' /\ RootsAreKnown'
  BY <1>1, <1>2, <1>3 DEF IdsAreGiven, RootsAreKnown, WorkTypeOK, WorkRoots, NoRoot
<1>7. StagesFit'
  BY <1>1, <1>3, <1>4 DEF StagesFit, Unclaimed, CheckedOut, Contexted, WorkTypeOK
<1> QED
  BY <1>5, <1>6, <1>7

\* The Git of an attempt.
LEMMA GitOfWorkKeeps ==
  ASSUME WorkInv, NEW a \in WorkAttempts, GitBranches(a) \/ GitChecksOut(a)
  PROVE  WorkInv'
<1> USE DEF WorkInv
<1>1. /\ UNCHANGED <<container, source, at, handle, meddled>>
      /\ adding[a] \in {"asked", "branched"}
  BY DEF GitBranches, GitChecksOut
<1>2. \A b \in WorkAttempts :
        at[b] \in Unclaimed \cup CheckedOut \cup {"reserved", "materializing"} => b # a
  BY <1>1 DEF StagesFit
<1>3. CASE \E s \in {"failed", "branched"} : adding' = [adding EXCEPT ![a] = s] /\ UNCHANGED <<root, ids>>
  <2>1. branchAt' \in Nat /\ registry' \in BOOLEAN
    <3>1. handle[a].commit \in Nat /\ branchAt \in Nat /\ registry \in BOOLEAN
      BY DEF WorkTypeOK
    <3>2. CASE GitBranches(a)
      BY <3>1, <3>2 DEF GitBranches
    <3>3. CASE GitChecksOut(a)
      BY <3>1, <3>3 DEF GitChecksOut
    <3> QED
      BY <3>2, <3>3
  <2>2. WorkTypeOK'
    BY <1>1, <1>3, <2>1 DEF WorkTypeOK
  <2>3. IdsAreGiven' /\ RootsAreKnown'
    BY <1>1, <1>3 DEF IdsAreGiven, RootsAreKnown, WorkTypeOK
  <2>4. StagesFit'
    BY <1>1, <1>2, <1>3 DEF StagesFit, WorkTypeOK
  <2> QED
    BY <2>2, <2>3, <2>4
<1>4. CASE /\ adding' = [adding EXCEPT ![a] = "done"] /\ registry' = TRUE /\ branchAt' = branchAt
           /\ root = NoRoot
           /\ ids' = ids + 1
           /\ root' = [NewRoot(ids + 1, "git") EXCEPT !.of = a, !.has = "checkout", !.onBranch = TRUE]
  <2>1. root' \in WorkRoots /\ root'.id = ids + 1
    <3>1. root' = [id |-> ids + 1, by |-> "git", of |-> a, has |-> "checkout",
                   onBranch |-> TRUE, file |-> NoFile]
      BY <1>4 DEF NewRoot
    <3> QED
      BY <3>1 DEF WorkTypeOK, WorkRoots, WorkContexts
  <2>2. WorkTypeOK'
    BY <1>1, <1>4, <2>1 DEF WorkTypeOK
  <2>3. IdsAreGiven' /\ RootsAreKnown'
    BY <1>1, <1>4, <2>1 DEF IdsAreGiven, RootsAreKnown, WorkTypeOK
  <2>4. StagesFit'
    BY <1>1, <1>2, <1>4 DEF StagesFit, WorkTypeOK
  <2> QED
    BY <2>2, <2>3, <2>4
<1>5. CASE /\ adding' = [adding EXCEPT ![a] = "done"] /\ registry' = TRUE /\ branchAt' = branchAt
           /\ root # NoRoot /\ root.has = "nothing"
           /\ ids' = ids
           /\ root' = [root EXCEPT !.of = a, !.has = "checkout", !.onBranch = TRUE]
  <2>1. /\ root' \in WorkRoots
        /\ root'.id = root.id /\ root'.by = root.by /\ root'.of = a /\ root'.has = "checkout"
    BY <1>5 DEF WorkTypeOK, WorkRoots
  <2>2. WorkTypeOK'
    BY <1>1, <1>5, <2>1 DEF WorkTypeOK
  <2>3. IdsAreGiven' /\ RootsAreKnown'
    BY <1>1, <1>5, <2>1 DEF IdsAreGiven, RootsAreKnown, WorkTypeOK
  <2>4. StagesFit'
    BY <1>1, <1>2, <1>5 DEF StagesFit, WorkTypeOK
  <2> QED
    BY <2>2, <2>3, <2>4
<1> QED
  BY <1>3, <1>4, <1>5 DEF GitBranches, GitChecksOut

\* Other processes.
LEMMA OthersKeep ==
  ASSUME WorkInv,
         \/ Others(TheirRoot) \/ Others(RootRemoved) \/ Others(TheirParent)
         \/ Others(TheirFiles) \/ Others(TheirCommits)
  PROVE  WorkInv'
<1> USE DEF WorkInv
<1>1. UNCHANGED <<at, handle, adding>> /\ meddled' \in Nat
  BY DEF Others, WorkTypeOK
<1>2. /\ container' \in Nat /\ ids' \in Nat /\ ids' >= ids /\ branchAt' \in Nat /\ source' \in Nat
      /\ registry' \in BOOLEAN
  <2>1. /\ container \in Nat /\ ids \in Nat /\ branchAt \in Nat /\ source \in Nat
        /\ registry \in BOOLEAN
    BY DEF WorkTypeOK
  <2>2. CASE TheirRoot
    <3>1. registry' = registry \/ registry' = FALSE
      BY <2>2 DEF TheirRoot
    <3>2. registry' \in BOOLEAN
      BY <2>1, <3>1
    <3> QED
      BY <2>1, <2>2, <3>2 DEF TheirRoot
  <2>5. CASE RootRemoved
    <3>1. registry' = registry \/ registry' = FALSE
      BY <2>5 DEF RootRemoved
    <3>2. registry' \in BOOLEAN
      BY <2>1, <3>1
    <3> QED
      BY <2>1, <2>5, <3>2 DEF RootRemoved
  <2>6. CASE TheirParent
    <3>1. registry' = registry \/ registry' = FALSE
      BY <2>6 DEF TheirParent
    <3>2. registry' \in BOOLEAN
      BY <2>1, <3>1
    <3> QED
      BY <2>1, <2>6, <3>2 DEF TheirParent
  <2>3. CASE TheirFiles
    BY <2>1, <2>3 DEF TheirFiles
  <2>4. CASE TheirCommits
    BY <2>1, <2>4 DEF TheirCommits
  <2> QED
    BY <2>2, <2>3, <2>4, <2>5, <2>6 DEF Others
<1>3. /\ root' \in WorkRoots
      /\ \/ root' = NoRoot
         \/ root'.id = ids + 1 /\ ids' = ids + 1
         \/ /\ root # NoRoot /\ root' # NoRoot
            /\ root'.id = root.id /\ root'.by = root.by /\ root'.of = root.of
            /\ root.has # "nothing" => root'.has = root.has
         \/ root' = root
  <2>1. CASE TheirRoot
    <3>1. PICK has \in {"nothing", "other"} :
            root' = [id |-> ids + 1, by |-> "others", of |-> "none", has |-> has,
                     onBranch |-> FALSE, file |-> NoFile]
      BY <2>1 DEF TheirRoot, NewRoot
    <3>2. root' \in WorkRoots
      BY <3>1 DEF WorkTypeOK, WorkRoots, WorkContexts
    <3> QED
      BY <2>1, <3>1, <3>2 DEF TheirRoot
  <2>2. CASE RootRemoved \/ TheirParent
    BY <2>2 DEF RootRemoved, TheirParent, WorkRoots
  <2>3. CASE TheirFiles
    <3>1. root # NoRoot
      BY <2>3 DEF TheirFiles
    <3>2. CASE root.has = "nothing" /\ root' = [root EXCEPT !.has = "other"]
      BY <3>1, <3>2 DEF WorkTypeOK, WorkRoots, NoRoot
    <3>3. CASE root.file # NoFile /\ root' = [root EXCEPT !.file.bytes = "other"]
      BY <3>1, <3>3 DEF WorkTypeOK, WorkRoots, WorkContexts, NoRoot
    <3>4. CASE ids' = ids + 1 /\ root' = [root EXCEPT !.file = [id |-> ids', bytes |-> "other"]]
      BY <3>1, <3>4 DEF WorkTypeOK, WorkRoots, WorkContexts, NoRoot
    <3> QED
      BY <2>3, <3>2, <3>3, <3>4 DEF TheirFiles
  <2>4. CASE TheirCommits
    BY <2>4 DEF TheirCommits, WorkTypeOK, WorkRoots, NoRoot
  <2> QED
    BY <2>1, <2>2, <2>3, <2>4 DEF Others
<1>4. WorkTypeOK'
  BY <1>1, <1>2, <1>3 DEF WorkTypeOK
<1>5. IdsAreGiven' /\ RootsAreKnown'
  <2>1. root'.id <= ids'
    BY <1>2, <1>3 DEF WorkTypeOK, WorkRoots, NoRoot, IdsAreGiven
  <2>2. \A a \in WorkAttempts :
          handle[a].target \in Nat /\ handle[a].target <= ids
    BY DEF IdsAreGiven, WorkTypeOK
  <2>3. CASE root' = NoRoot
    BY <1>1, <1>2, <2>1, <2>2, <2>3 DEF IdsAreGiven, RootsAreKnown, WorkTypeOK, NoRoot
  <2>4. CASE root'.id = ids + 1 /\ ids' = ids + 1
    BY <1>1, <1>2, <2>1, <2>2, <2>4 DEF IdsAreGiven, RootsAreKnown, WorkTypeOK
  <2>5. CASE \/ /\ root'.id = root.id /\ root'.by = root.by /\ root'.of = root.of
                /\ root.has # "nothing" => root'.has = root.has
             \/ root' = root
    BY <1>1, <1>2, <2>1, <2>2, <2>5 DEF IdsAreGiven, RootsAreKnown, WorkTypeOK
  <2> QED
    BY <1>3, <2>3, <2>4, <2>5
<1>6. StagesFit'
  BY <1>1 DEF StagesFit
<1> QED
  BY <1>4, <1>5, <1>6

LEMMA WorkKeeps == ASSUME WorkInv, [WorkNext]_workVars PROVE WorkInv'
<1>1. CASE WorkNext
  BY <1>1, LooksKeep, ProvisionKeeps, ClaimKeeps, AddKeeps, ContextKeeps, GitOfWorkKeeps,
     OthersKeep DEF WorkNext, OnlyLooks
<1>2. CASE UNCHANGED workVars
  BY <1>2 DEF workVars, diskVars, WorkInv, WorkTypeOK, IdsAreGiven, RootsAreKnown, StagesFit
<1> QED
  BY <1>1, <1>2

-------------------------------------------------------------------------------
(* The worktree: the steps *)

LEMMA WorksInItsOwnStep ==
  ASSUME WorkInv, [WorkNext]_workVars
  PROVE  WorksInItsOwn
<1> USE DEF WorkInv
<1> SUFFICES ASSUME NEW a \in WorkAttempts, at'[a] \notin {at[a], "failed"}
             PROVE  /\ at[a] \in {"reserved", "materializing", "adding", "verifying",
                                  "materialized", "created", "written", "ready", "launching"}
                         => root.by = a
                    /\ at[a] \in {"verifying", "materialized", "created", "written", "ready",
                                  "launching"} => root.of = a
  BY DEF WorksInItsOwn
<1>1. ASSUME NEW b \in WorkAttempts, NEW from, NEW to, Goes(b, from, to)
      PROVE  b = a /\ at[a] = from
  BY <1>1 DEF Goes, WorkTypeOK
<1>2. ~(UNCHANGED at)
  OBVIOUS
<1>3. ~Others(TheirRoot) /\ ~Others(RootRemoved) /\ ~Others(TheirParent) /\ ~Others(TheirFiles)
        /\ ~Others(TheirCommits)
  BY <1>2 DEF Others
<1>4. \A b \in WorkAttempts : ~AttemptFails(b) /\ ~GitBranches(b) /\ ~GitChecksOut(b)
  BY <1>2 DEF AttemptFails, GitBranches, GitChecksOut, WorkTypeOK
<1>5. CASE at[a] \in Unclaimed
  BY <1>5 DEF Unclaimed
<1>6. CASE at[a] \notin Unclaimed
  <2>1. PICK b \in WorkAttempts :
          \/ Provision(b) \/ Preflight(b) \/ ClaimRoot(b) \/ AddWorktree(b)
          \/ CreateContext(b) \/ WriteContext(b) \/ OnlyLooks(b)
    BY <1>2, <1>3, <1>4 DEF WorkNext, OnlyLooks, workVars
  <2>2. b = a /\ root.id = handle[a].target
    <3>1. CASE Provision(b) \/ Preflight(b) \/ ClaimRoot(b)
      BY <1>1, <1>6, <3>1 DEF Provision, Preflight, ClaimRoot, Unclaimed
    <3>2. CASE AddWorktree(b) \/ CreateContext(b) \/ WriteContext(b)
      BY <1>1, <3>2 DEF AddWorktree, CreateContext, WriteContext, Verified, StillEmpty, SameTarget
    <3>3. CASE OnlyLooks(b)
      <4>1. CASE ProvisionEnds(b) \/ PreflightEnds(b) \/ Prepare(b) \/ Recheck(b)
        BY <1>1, <1>6, <4>1 DEF ProvisionEnds, PreflightEnds, Prepare, Recheck, Unclaimed
      <4>2. CASE \/ Materialize(b) \/ AddEnds(b) \/ VerifyWorktree(b) \/ CheckContext(b)
                 \/ CheckLaunch(b) \/ LaunchInRoot(b)
        BY <1>1, <4>2 DEF Materialize, AddEnds, VerifyWorktree, CheckContext, CheckLaunch,
                          LaunchInRoot, Verified, StillEmpty, SameTarget
      <4> QED
        BY <3>3, <4>1, <4>2 DEF OnlyLooks
    <3> QED
      BY <2>1, <3>1, <3>2, <3>3
  <2>3. at[a] # "failed"
    BY <2>1, <2>2, <1>1 DEF Provision, Preflight, ClaimRoot, AddWorktree, CreateContext,
       WriteContext, OnlyLooks, ProvisionEnds, PreflightEnds, Prepare, Recheck, Materialize,
       AddEnds, VerifyWorktree, CheckContext, CheckLaunch, LaunchInRoot
  <2>4. handle[a].target # 0
    BY <1>6, <2>3 DEF StagesFit
  <2> QED
    BY <2>2, <2>4 DEF RootsAreKnown, StagesFit, CheckedOut
<1> QED
  BY <1>5, <1>6

LEMMA LaunchedWithItsContextStep ==
  ASSUME WorkInv, [WorkNext]_workVars
  PROVE  LaunchedWithItsContext
<1> USE DEF WorkInv
<1> SUFFICES ASSUME NEW a \in WorkAttempts, at[a] = "launching", at'[a] = "launched"
             PROVE  root.file = [id |-> handle[a].file, bytes |-> "written"] /\ handle[a].file # 0
  BY DEF LaunchedWithItsContext
<1>1. SameTarget(a) /\ SameFile(a)
  BY DEF WorkNext, workVars, Others, AttemptFails, GitBranches, GitChecksOut, Provision,
     Preflight, ClaimRoot, AddWorktree, CreateContext, WriteContext, ProvisionEnds,
     PreflightEnds, Prepare, Recheck, Materialize, AddEnds, VerifyWorktree, CheckContext,
     CheckLaunch, LaunchInRoot, Goes, WorkTypeOK
<1>2. handle[a].file # 0 /\ handle[a].target # 0
  BY DEF StagesFit, Contexted, Unclaimed
<1>3. root # NoRoot
  BY <1>1, <1>2 DEF SameTarget, NoRoot
<1>4. root.file \in [id : Nat \ {0}, bytes : {"none", "written", "other"}]
  BY <1>1, <1>2, <1>3 DEF SameFile, WorkTypeOK, WorkRoots, WorkContexts, NoFile
<1> QED
  BY <1>1, <1>2, <1>4 DEF SameFile

LEMMA NothingTakenOverStep ==
  ASSUME WorkInv, [WorkNext]_workVars
  PROVE  NothingTakenOver
<1> USE DEF WorkInv
<1> SUFFICES ASSUME meddled' = meddled, root # NoRoot
             PROVE  /\ root'.id = root.id
                    /\ root.has # "nothing" => root'.has = root.has
                    /\ root.file # NoFile =>
                         \/ root'.file = root.file
                         \/ \E a \in WorkAttempts :
                              root'.file.id = root.file.id /\ handle[a].file = root.file.id
  BY DEF NothingTakenOver
<1>1. ~Others(TheirRoot) /\ ~Others(RootRemoved) /\ ~Others(TheirParent) /\ ~Others(TheirFiles)
        /\ ~Others(TheirCommits)
  BY DEF Others, WorkTypeOK
<1>2. root \in [id : Nat \ {0}, by : WorkAttempts \cup {"git", "others"},
                of : WorkAttempts \cup {"none"}, has : {"nothing", "checkout", "other"},
                onBranch : BOOLEAN, file : WorkContexts]
  BY DEF WorkTypeOK, WorkRoots
<1>3. CASE UNCHANGED root
  BY <1>3
<1>4. ASSUME NEW a \in WorkAttempts, CreateContext(a)
      PROVE  root'.id = root.id /\ root'.has = root.has /\ root.file = NoFile
  BY <1>2, <1>4 DEF CreateContext
<1>5. ASSUME NEW a \in WorkAttempts, WriteContext(a)
      PROVE  /\ root'.id = root.id /\ root'.has = root.has
             /\ root'.file.id = root.file.id /\ handle[a].file = root.file.id
  BY <1>2, <1>5 DEF WriteContext, Goes, StagesFit, Contexted, WorkTypeOK, WorkContexts, NoFile
<1>6. ASSUME NEW a \in WorkAttempts, GitChecksOut(a)
      PROVE  /\ root'.id = root.id
             /\ root.has # "nothing" => root'.has = root.has
             /\ root'.file = root.file
  BY <1>2, <1>6 DEF GitChecksOut
<1>7. ASSUME NEW a \in WorkAttempts, ClaimRoot(a) PROVE FALSE
  BY <1>7 DEF ClaimRoot, MakeRoot
<1>8. ASSUME NEW a \in WorkAttempts,
             \/ Provision(a) \/ Preflight(a) \/ AddWorktree(a) \/ AttemptFails(a)
             \/ GitBranches(a) \/ OnlyLooks(a)
      PROVE  UNCHANGED root
  BY <1>8 DEF Provision, Preflight, AddWorktree, AttemptFails, GitBranches, OnlyLooks,
     ProvisionEnds, PreflightEnds, Prepare, Recheck, Materialize, AddEnds, VerifyWorktree,
     CheckContext, CheckLaunch, LaunchInRoot, diskVars
<1>9. CASE UNCHANGED workVars
  BY <1>3, <1>9 DEF workVars, diskVars
<1>10. CASE WorkNext
  <2>1. PICK a \in WorkAttempts :
          \/ CreateContext(a) \/ WriteContext(a) \/ GitChecksOut(a)
          \/ UNCHANGED root
    BY <1>1, <1>7, <1>8, <1>10 DEF WorkNext, OnlyLooks
  <2>2. CASE CreateContext(a)
    BY <1>4, <2>2
  <2>3. CASE WriteContext(a)
    BY <1>5, <2>3
  <2>4. CASE GitChecksOut(a)
    BY <1>6, <2>4
  <2> QED
    BY <1>3, <2>1, <2>2, <2>3, <2>4
<1> QED
  BY <1>9, <1>10

-------------------------------------------------------------------------------
(* Owned repositories and work: the theorems *)

\* Either part may step, the runs of Git and the attempts of a run.
OwnedSpec ==
  /\ GitInit /\ WorkInit
  /\ [][\/ GitNext /\ UNCHANGED workVars
        \/ WorkNext /\ UNCHANGED gitVars]_<<gitVars, workVars>>

\* The inductive invariant: what the daemon saw of Git's processes is true of
\* them, and what an attempt remembers is of the directory it made itself
\* (owned-git.ts, worktree-reservation.ts).
THEOREM OwnedInvHoldsAlways == OwnedSpec => [](GitInv /\ WorkInv)
<1>1. GitInit /\ WorkInit => GitInv /\ WorkInv
  BY GitInitOK, WorkInitOK
<1>2. /\ GitInv /\ WorkInv
      /\ [\/ GitNext /\ UNCHANGED workVars
          \/ WorkNext /\ UNCHANGED gitVars]_<<gitVars, workVars>>
      => GitInv' /\ WorkInv'
  BY GitKeeps, WorkKeeps
<1> QED
  BY <1>1, <1>2, PTL DEF OwnedSpec

\* Git is said to have succeeded only when it did and nothing of it is left, and
\* each step of an attempt works in the directory that attempt made, in its own
\* checkout, beside its own context (owned-git.ts, worktree-reservation.ts,
\* owned-context.ts).
THEOREM OwnedIsSafe == OwnedSpec => OwnedHolds
<1>1. /\ GitInv /\ WorkInv /\ GitInv' /\ WorkInv'
      /\ [\/ GitNext /\ UNCHANGED workVars
          \/ WorkNext /\ UNCHANGED gitVars]_<<gitVars, workVars>>
      => [GitVerdictTrue' /\ WorksInItsOwn /\ LaunchedWithItsContext /\ NothingTakenOver
         ]_<<gitVars, workVars>>
  BY WorksInItsOwnStep, LaunchedWithItsContextStep, NothingTakenOverStep DEF GitInv
<1> QED
  BY <1>1, OwnedInvHoldsAlways, PTL DEF OwnedSpec, OwnedHolds
===============================================================================
