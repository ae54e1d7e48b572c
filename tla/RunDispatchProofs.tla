--------------------------- MODULE RunDispatchProofs ---------------------------
(* Theorems about RunDispatch for any number of runs, connections and faults,    *)
(* and whatever order the frames, closes, timeouts and restarts come in.  The    *)
(* second part is that it implements RunStore when closes are seen in order and  *)
(* database work ends before the connections change.  The step that needs it is  *)
(* the rejection of a start: the store relies on its coming before anything else *)
(* is known of the run.  Under the same assumptions, and with at most one fault, *)
(* what the server is told of ends is true and leases cover every process.       *)
EXTENDS RunDispatch, RunStoreProofs, SequenceTheorems, FiniteSetTheorems

-------------------------------------------------------------------------------
(* Types *)

Ops == {"start", "stop", "resume", "receipt", "event", "startAck", "stopAck", "resumeAck",
        "resumeTimeout"}
Verdicts == {"", "accepted", "rejected", "process_exited"}

Frames == {f \in [op : Ops, run : Runs, n : Nat, status : Verdicts \cup Phases] :
             /\ f.op \in {"start", "startAck"} => f.n = 0
             /\ f.op = "start" => f.status = ""
             /\ f.op = "startAck" => f.status \in {"accepted", "rejected"}
             /\ f.op = "event" => f.n \in 0..2 /\ f.status \in Phases}

Intents == {"cancel", "reconcile"}
Bindings ==
  [side : {"none", "open", "active", "ready", "closed"},
   snap : SUBSET Runs, todo : SUBSET Runs, start : SUBSET Runs, resume : SUBSET Runs,
   reconcile : SUBSET Runs, stop : [Runs -> {"idle", "sent", "acked"}],
   wait : SUBSET (Runs \X Intents), work : Seq(Frames)]

ServerTypes ==
  /\ binding \in [Conns -> Bindings]
  /\ reg \in {0} \cup Conns
  /\ grace \subseteq Runs /\ expiring \subseteq Runs /\ queued \subseteq Runs
  /\ startOps \subseteq Runs \X Conns
  /\ stopDone \subseteq Runs \X Intents

NodeTypes ==
  /\ cur \in {0} \cup Conns
  /\ nrun \in [Runs -> {"none", "starting", "live", "finished"}]
  /\ alive \subseteq Runs
  /\ spawned \in [Runs -> Nat]
  /\ exit \in [Runs -> {None, "completed", "failed", "cancelled"}]
  /\ pend \in [Runs -> [seq : 0..2, body : Phases \cup {None}, last : BOOLEAN]]
  /\ nodeTodo \subseteq Conns \X Frames

NetTypes ==
  /\ s2n \in [Conns -> Seq(Frames)] /\ n2s \in [Conns -> Seq(Frames)]
  /\ stopNo \in [Runs -> Nat]

\* The rows of the store that the protocol reads.
RowTypes ==
  /\ run \in [Runs -> RunStatus \cup {None}]
  /\ receipts \in [Runs -> [Seqs -> Bodies \cup {None}]]

Types == RowTypes /\ ServerTypes /\ NodeTypes /\ NetTypes

-------------------------------------------------------------------------------
(* The start of a run is in one place at most *)

StartOf(r) == Frame("start", r, 0, "")
RejectOf(r) == Frame("startAck", r, 0, "rejected")

Dispatching(r) == \E c \in Conns : <<r, c>> \in startOps
OnWire(r) == \E c \in Conns : StartOf(r) \in ToSet(s2n[c])
Starting(r) == \E c \in Conns : <<c, StartOf(r)>> \in nodeTodo
RejectedOn(r, c) == RejectOf(r) \in ToSet(n2s[c]) \/ RejectOf(r) \in ToSet(binding[c].work)
Rejected(r) == \E c \in Conns : RejectedOn(r, c)

\* From onRunQueued over the command, its handler and its answer to the process.
OnePlace ==
  \A r \in Runs :
    /\ run[r] = None => r \notin queued
    /\ run[r] = None \/ r \in queued => ~Dispatching(r)
    /\ run[r] = None \/ r \in queued \/ Dispatching(r) => ~OnWire(r)
    /\ run[r] = None \/ r \in queued \/ Dispatching(r) \/ OnWire(r) => ~Starting(r)
    /\ run[r] = None \/ r \in queued \/ Dispatching(r) \/ OnWire(r) \/ Starting(r) => ~Rejected(r)
    /\ spawned[r] # 0 => /\ run[r] # None /\ r \notin queued
                         /\ ~Dispatching(r) /\ ~OnWire(r) /\ ~Starting(r) /\ ~Rejected(r)
    /\ spawned[r] <= 1

Once(s, f) == \A i, j \in 1..Len(s) : s[i] = f /\ s[j] = f => i = j

\* And it is there once.
OneCopy ==
  \A r \in Runs :
    /\ \A c, d \in Conns : <<r, c>> \in startOps /\ <<r, d>> \in startOps => c = d
    /\ \A c, d \in Conns : StartOf(r) \in ToSet(s2n[c]) /\ StartOf(r) \in ToSet(s2n[d]) => c = d
    /\ \A c, d \in Conns : <<c, StartOf(r)>> \in nodeTodo /\ <<d, StartOf(r)>> \in nodeTodo => c = d
    /\ \A c, d \in Conns : RejectedOn(r, c) /\ RejectedOn(r, d) => c = d
    /\ \A c \in Conns :
         /\ Once(s2n[c], StartOf(r)) /\ Once(n2s[c], RejectOf(r))
         /\ Once(binding[c].work, RejectOf(r))
         /\ RejectOf(r) \in ToSet(n2s[c]) => RejectOf(r) \notin ToSet(binding[c].work)

-------------------------------------------------------------------------------
(* Events follow the process, and each other *)

EventOK(f) ==
  f.op = "event" =>
    /\ spawned[f.run] # 0
    /\ f.n = 0 <=> f.status = "started"
    /\ f.status \in {"completed", "cancelled"} => StartAccepted(f.run)

\* What is under way.
EventsUp == \A c \in Conns : \A f \in ToSet(n2s[c]) \cup ToSet(binding[c].work) : EventOK(f)

ReceiptOK(f) ==
  f.op = "receipt" /\ f.n = 0 /\ f.status = "accepted" => receipts[f.run][0] = "started"
ReceiptsDown == \A c \in Conns : \A f \in ToSet(s2n[c]) : ReceiptOK(f)

\* What the daemon has of a run, and the store of its events.
Streamed(r) ==
  /\ receipts[r][0] \in {None, "started"}
  /\ spawned[r] = 0 => /\ r \notin alive /\ nrun[r] # "live"
                       /\ \A q \in Seqs : receipts[r][q] = None
  /\ pend[r] # NoEvent =>
       /\ nrun[r] = "live"
       /\ pend[r].body \in Phases
       /\ pend[r].seq = 0 <=> pend[r].body = "started"
       /\ pend[r].body \in {"completed", "cancelled"} => StartAccepted(r)
       /\ ~pend[r].last => pend[r].seq <= 1
  /\ nrun[r] = "live" /\ pend[r] = NoEvent => StartAccepted(r)

EventsFollow == EventsUp /\ ReceiptsDown /\ \A r \in Runs : Streamed(r)

\* What a binding, and the daemon's table of runs, keep in step.
WaitsForStop(b) == \A w \in b.wait : b.stop[w[1]] # "idle"
InStepHere ==
  /\ \A c \in Conns : WaitsForStop(binding[c])
  /\ reg # 0 => binding[reg].side \in {"active", "ready"}
  /\ \A r \in Runs : nrun[r] = "starting" <=> Starting(r)

DispatchInv == Types /\ OnePlace /\ OneCopy /\ EventsFollow /\ InStepHere

-------------------------------------------------------------------------------
(* Queues of frames *)

LEMMA ElemsIn == ASSUME NEW S, NEW s \in Seq(S) PROVE ToSet(s) \subseteq S
  BY DEF ToSet

LEMMA NoElems ==
  ASSUME NEW S PROVE <<>> \in Seq(S) /\ ToSet(<<>>) = {} /\ \A f : Once(<<>>, f)
  BY DEF ToSet, Once

\* A frame more at the end.
LEMMA AppendElems ==
  ASSUME NEW S, NEW s \in Seq(S), NEW x \in S
  PROVE  /\ Append(s, x) \in Seq(S)
         /\ ToSet(Append(s, x)) = ToSet(s) \cup {x}
         /\ \A f : Once(s, f) /\ (x # f \/ f \notin ToSet(s)) => Once(Append(s, x), f)
<1>1. /\ Append(s, x) \in Seq(S) /\ Len(Append(s, x)) = Len(s) + 1
      /\ \A i \in 1..Len(s) : Append(s, x)[i] = s[i]
      /\ Append(s, x)[Len(s) + 1] = x
  OBVIOUS
<1>2. ToSet(Append(s, x)) = ToSet(s) \cup {x}
  BY <1>1 DEF ToSet
<1>3. ASSUME NEW f, Once(s, f), x # f \/ f \notin ToSet(s) PROVE Once(Append(s, x), f)
  BY <1>1, <1>3 DEF ToSet, Once
<1> QED
  BY <1>1, <1>2, <1>3

\* The first frame is taken.
LEMMA TailElems ==
  ASSUME NEW S, NEW s \in Seq(S), s # <<>>
  PROVE  /\ Head(s) \in S /\ Head(s) \in ToSet(s)
         /\ Tail(s) \in Seq(S) /\ ToSet(Tail(s)) \subseteq ToSet(s)
         /\ \A f : Once(s, f) => /\ Once(Tail(s), f)
                                 /\ Head(s) = f => f \notin ToSet(Tail(s))
BY DEF ToSet, Once

LEMMA ConcatIsAppend ==
  ASSUME NEW S, NEW s \in Seq(S), NEW x \in S, NEW y \in S
  PROVE  s \o <<x>> = Append(s, x) /\ s \o <<x, y>> = Append(Append(s, x), y)
OBVIOUS

\* A finite set in some order.
LEMMA SetToSeqElems ==
  ASSUME NEW S, NEW T, IsFiniteSet(T), T \subseteq S
  PROVE  SetToSeq(T) \in Seq(S) /\ ToSet(SetToSeq(T)) \subseteq T
BY FS_CardinalityType DEF ExistsBijection, Bijection, Injection, SetToSeq, ToSet

-------------------------------------------------------------------------------
(* What a step does to the queues *)

\* t has nothing that s has not, but for members of F, and repeats nothing else.
Gain(s, t, F) ==
  /\ t \in Seq(Frames)
  /\ ToSet(t) \subseteq ToSet(s) \cup F
  /\ \A f : f \notin F /\ Once(s, f) => Once(t, f)
Gains(q, p, F) == \A c \in Conns : Gain(q[c], p[c], F)

Work == [c \in Conns |-> binding[c].work]

LEMMA GainKinds ==
  ASSUME NEW s \in Seq(Frames)
  PROVE  /\ Gain(s, s, {}) /\ Gain(s, <<>>, {})
         /\ s # <<>> => Gain(s, Tail(s), {}) /\ Head(s) \in Frames /\ Head(s) \in ToSet(s)
         /\ \A f \in Frames : Gain(s, Append(s, f), {f})
BY NoElems, TailElems, AppendElems DEF Gain

\* A frame goes out, or does not.
LEMMA GainsAppend ==
  ASSUME NEW q \in [Conns -> Seq(Frames)], NEW c \in Conns, NEW f \in Frames, NEW p,
         p = q \/ p = [q EXCEPT ![c] = Append(@, f)]
  PROVE  p \in [Conns -> Seq(Frames)] /\ Gains(q, p, {f})
<1>1. CASE p = q
  BY <1>1, GainKinds DEF Gains, Gain
<1>2. CASE p = [q EXCEPT ![c] = Append(@, f)]
  <2>1. \A d \in Conns : p[d] = IF d = c THEN Append(q[c], f) ELSE q[d]
    BY <1>2
  <2>2. ASSUME NEW d \in Conns PROVE Gain(q[d], p[d], {f})
    <3>1. CASE d = c
      BY <2>1, <3>1, GainKinds
    <3>2. CASE d # c
      BY <2>1, <3>2, GainKinds DEF Gain
    <3> QED
      BY <3>1, <3>2
  <2> QED
    BY <1>2, <2>2, AppendProperties DEF Gains
<1> QED
  BY <1>1, <1>2

\* A queue is read, or dropped, or left.
LEMMA GainsTake ==
  ASSUME NEW q \in [Conns -> Seq(Frames)], NEW c \in Conns, NEW p,
         \/ p = q \/ p = [q EXCEPT ![c] = <<>>] \/ p = [d \in Conns |-> <<>>]
         \/ q[c] # <<>> /\ p = [q EXCEPT ![c] = Tail(@)]
  PROVE  p \in [Conns -> Seq(Frames)] /\ Gains(q, p, {})
<1>1. ASSUME NEW d \in Conns
      PROVE  p[d] = q[d] \/ p[d] = <<>> \/ (q[d] # <<>> /\ p[d] = Tail(q[d]))
  <2>1. CASE p = q
    BY <2>1
  <2>2. CASE p = [q EXCEPT ![c] = <<>>]
    BY <2>2
  <2>3. CASE p = [e \in Conns |-> <<>>]
    BY <2>3
  <2>4. CASE q[c] # <<>> /\ p = [q EXCEPT ![c] = Tail(@)]
    BY <2>4
  <2> QED
    BY <2>1, <2>2, <2>3, <2>4
<1>2. ASSUME NEW d \in Conns PROVE Gain(q[d], p[d], {})
  BY <1>1, GainKinds
<1>3. DOMAIN p = Conns /\ p = [d \in Conns |-> p[d]]
  OBVIOUS
<1> QED
  BY <1>2, <1>3 DEF Gains, Gain

LEMMA GainsSelf ==
  ASSUME NEW q \in [Conns -> Seq(Frames)], NEW F PROVE Gains(q, q, F)
  BY GainKinds DEF Gains, Gain

\* One binding changes.
LEMMA BindingStep ==
  ASSUME binding \in [Conns -> Bindings], NEW c \in Conns, NEW b \in Bindings, NEW F,
         binding' = [binding EXCEPT ![c] = b], Gain(binding[c].work, b.work, F)
  PROVE  /\ binding' \in [Conns -> Bindings]
         /\ binding'[c] = b /\ \A d \in Conns : d # c => binding'[d] = binding[d]
         /\ Gains(Work, Work', F)
BY GainKinds DEF Bindings, Gains, Gain, Work

-------------------------------------------------------------------------------
(* Steps that start nothing *)

\* Places are only left, but for an answer that comes in.
LEMMA PlacesShrink ==
  ASSUME OnePlace, OneCopy,
         \A r \in Runs : run'[r] = None => run[r] = None,
         queued' \subseteq queued, startOps' \subseteq startOps, spawned' = spawned,
         \A c \in Conns, r \in Runs :
           /\ <<c, StartOf(r)>> \in nodeTodo' => <<c, StartOf(r)>> \in nodeTodo
           /\ StartOf(r) \in ToSet(s2n'[c]) => StartOf(r) \in ToSet(s2n[c])
           /\ Once(s2n'[c], StartOf(r))
           /\ RejectedOn(r, c)' => RejectedOn(r, c)
           /\ Once(n2s'[c], RejectOf(r)) /\ Once(binding'[c].work, RejectOf(r))
           /\ RejectOf(r) \in ToSet(n2s'[c]) => RejectOf(r) \notin ToSet(binding'[c].work)
  PROVE  OnePlace' /\ OneCopy'
BY DEF Dispatching, OnWire, Starting, Rejected, OnePlace, OneCopy, StartOf, RejectOf

LEMMA NoNewStart ==
  ASSUME OnePlace, OneCopy, NEW F, NEW G, NEW H,
         \A r \in Runs : run'[r] = None => run[r] = None,
         queued' \subseteq queued, startOps' \subseteq startOps, spawned' = spawned,
         \A c \in Conns, r \in Runs : <<c, StartOf(r)>> \in nodeTodo' => <<c, StartOf(r)>> \in nodeTodo,
         Gains(s2n, s2n', F), \A r \in Runs : StartOf(r) \notin F,
         Gains(n2s, n2s', G), \A r \in Runs : RejectOf(r) \notin G,
         Gains(Work, Work', H), \A r \in Runs : RejectOf(r) \notin H
  PROVE  OnePlace' /\ OneCopy'
BY PlacesShrink DEF Gains, Gain, Work, RejectedOn, OneCopy

\* Events and receipts that were true stay true.
LEMMA FramesStayTrue ==
  ASSUME Types, EventsFollow, NEW F, NEW G, NEW H,
         Gains(s2n, s2n', F), \A f \in F : ReceiptOK(f)',
         Gains(n2s, n2s', G), \A f \in G : EventOK(f)',
         Gains(Work, Work', H), \A f \in H : EventOK(f)',
         \A r \in Runs : /\ spawned[r] # 0 => spawned'[r] # 0
                         /\ StartAccepted(r) => StartAccepted(r)'
                         /\ receipts[r][0] = "started" => receipts'[r][0] = "started"
  PROVE  EventsUp' /\ ReceiptsDown'
<1>1. ASSUME NEW c \in Conns, NEW f \in ToSet(n2s'[c]) PROVE EventOK(f)'
  BY ElemsIn, <1>1 DEF EventsFollow, EventsUp, Types, NetTypes, EventOK, Frames, Gains, Gain
<1>2. ASSUME NEW c \in Conns, NEW f \in ToSet(binding'[c].work) PROVE EventOK(f)'
  <2>1. CASE f \in ToSet(binding[c].work)
    BY <2>1, ElemsIn DEF Types, ServerTypes, Bindings, EventsFollow, EventsUp, EventOK, Frames
  <2> QED
    BY <1>2, <2>1 DEF Gains, Gain, Work
<1>3. ASSUME NEW c \in Conns, NEW f \in ToSet(s2n'[c]) PROVE ReceiptOK(f)'
  <2>1. CASE f \in ToSet(s2n[c])
    BY <2>1, ElemsIn DEF EventsFollow, ReceiptsDown, Types, NetTypes, ReceiptOK, Frames
  <2> QED
    BY <1>3, <2>1 DEF Gains, Gain
<1> QED
  BY <1>1, <1>2, <1>3 DEF EventsUp, ReceiptsDown

\* What the store has of a run's events: the first one is the start of its process.
Ingests ==
  /\ receipts' \in [Runs -> [Seqs -> Bodies \cup {None}]]
  /\ \A r \in Runs, q \in Seqs :
       \/ receipts'[r][q] = receipts[r][q]
       \/ /\ receipts[r][q] = None /\ spawned[r] # 0
          /\ q = 0 => receipts'[r][q] = "started"

\* A step of the server, which leaves the daemon alone.
LEMMA ServerStepRest ==
  ASSUME DispatchInv, NEW F, NEW H, UNCHANGED nodeVars, Ingests,
         run' \in [Runs -> RunStatus \cup {None}], ServerTypes', NetTypes',
         Gains(s2n, s2n', F), \A f \in F : ReceiptOK(f)',
         Gains(n2s, n2s', {}),
         Gains(Work, Work', H), \A f \in H : EventOK(f)',
         \A c \in Conns : WaitsForStop(binding'[c]),
         reg' # 0 => binding'[reg'].side \in {"active", "ready"}
  PROVE  Types' /\ EventsFollow' /\ InStepHere'
<1> USE DEF DispatchInv
<1>1. Types'
  BY DEF Types, RowTypes, NodeTypes, nodeVars, Ingests
<1>2. 0 \in Seqs /\ None # "started"
  BY DispatchAssumption, StoreAssumption DEF DispatchAssumption, StoreAssumption, Bodies, Phases
<1>3. \A r \in Runs : /\ spawned[r] # 0 => spawned'[r] # 0
                      /\ StartAccepted(r) => StartAccepted(r)'
                      /\ receipts[r][0] = "started" => receipts'[r][0] = "started"
  BY <1>2 DEF nodeVars, StartAccepted, Ingests
<1>4. EventsUp' /\ ReceiptsDown'
  BY <1>3, FramesStayTrue
<1>5. ASSUME NEW r \in Runs PROVE Streamed(r)'
  <2>1. Streamed(r)
    BY DEF EventsFollow
  <2>2. receipts'[r][0] \in {None, "started"}
    BY <1>2, <2>1 DEF Streamed, Ingests
  <2>3. spawned[r] = 0 => \A q \in Seqs : receipts'[r][q] = None
    BY <2>1 DEF Streamed, Ingests
  <2> QED
    BY <1>3, <2>1, <2>2, <2>3 DEF Streamed, nodeVars
<1>6. InStepHere'
  BY DEF InStepHere, nodeVars, Starting
<1> QED
  BY <1>1, <1>4, <1>5, <1>6 DEF EventsFollow

\* A step of the server that neither starts a run nor takes its answer up.
LEMMA ServerStepKeeps ==
  ASSUME DispatchInv, NEW F, NEW H, UNCHANGED nodeVars, Ingests,
         run' \in [Runs -> RunStatus \cup {None}], \A r \in Runs : run'[r] = None => run[r] = None,
         ServerTypes', NetTypes', queued' \subseteq queued, startOps' \subseteq startOps,
         Gains(s2n, s2n', F), \A f \in F : f.op # "start" /\ ReceiptOK(f)',
         Gains(n2s, n2s', {}),
         Gains(Work, Work', H), \A f \in H : f.op # "startAck" /\ EventOK(f)',
         \A c \in Conns : WaitsForStop(binding'[c]),
         reg' # 0 => binding'[reg'].side \in {"active", "ready"}
  PROVE  DispatchInv'
<1>1. OnePlace' /\ OneCopy'
  <2>1. (\A r \in Runs : StartOf(r) \notin F) /\ \A r \in Runs : RejectOf(r) \notin H
    BY DEF StartOf, RejectOf, Frame
  <2> QED
    BY <2>1, NoNewStart DEF nodeVars, DispatchInv
<1>2. Types' /\ EventsFollow' /\ InStepHere'
  BY ServerStepRest
<1> QED
  BY <1>1, <1>2 DEF DispatchInv

-------------------------------------------------------------------------------
(* The rows of the store *)

RowsStay ==
  /\ run' \in [Runs -> RunStatus \cup {None}]
  /\ \A r \in Runs : run'[r] = None => run[r] = None

\* No transaction on a run removes it.
LEMMA RunUpdate ==
  ASSUME RowTypes, NEW r \in Runs, NEW x \in RunStatus, run' = run \/ run' = [run EXCEPT ![r] = x]
  PROVE  RowsStay
<1>1. x # None
  BY StoreAssumption DEF StoreAssumption
<1> QED
  BY <1>1 DEF RowTypes, RowsStay

LEMMA CancelRows ==
  ASSUME RowTypes, NEW r \in Runs, CancelRunCommit(r) PROVE RowsStay /\ receipts' = receipts
<1>1. run[r] \in RunActive
  BY RunEdges DEF CancelRunCommit, RowTypes
<1>2. run' = [run EXCEPT ![r] = "cancelled"] /\ "cancelled" \in RunStatus
  BY <1>1, RunEdges DEF CancelRunCommit, RunStatus
<1> QED
  BY <1>2, RunUpdate DEF CancelRunCommit

LEMMA StartFailsRow ==
  ASSUME RowTypes, NEW r \in Runs, run[r] # None
  PROVE  FromQueued(r, "start_failed") \in RunStatus
  BY RunEdges, StoreAssumption DEF FromQueued, CasRun, RunStatus, RowTypes, StoreAssumption

LEMMA RejectRows ==
  ASSUME RowTypes, NEW r \in Runs, FailRunStart(r) PROVE RowsStay /\ receipts' = receipts
  BY StartFailsRow, RunUpdate DEF FailRunStart

LEMMA DisconnectRows ==
  ASSUME RowTypes, NEW r \in Runs, NEW e \in BOOLEAN, FailRunDaemonDisconnect(r, e)
  PROVE  RowsStay /\ receipts' = receipts
<1>1. CASE run' = run
  BY <1>1 DEF RowsStay, RowTypes, FailRunDaemonDisconnect
<1>2. CASE run[r] \in {"running", "paused", "awaiting_input"}
           /\ run' = [run EXCEPT ![r] = ApplyRunTransition(@, "run_failed")]
  BY <1>2, RunEdges, RunUpdate DEF RunStatus, FailRunDaemonDisconnect
<1>3. CASE run[r] \in {"queued", "starting"}
           /\ run' = [run EXCEPT ![r] = FromQueued(r, "start_failed")]
  BY <1>3, StartFailsRow, RunUpdate, StoreAssumption
  DEF FailRunDaemonDisconnect, StoreAssumption, RunStatus
<1> QED
  BY <1>1, <1>2, <1>3 DEF FailRunDaemonDisconnect, runVars

LEMMA IngestRows ==
  ASSUME RowTypes, NEW r \in Runs, NEW q \in Seqs, NEW b \in Phases, IngestRunEvent(r, q, b)
  PROVE  /\ RowsStay /\ receipts[r][q] = None
         /\ receipts' = [receipts EXCEPT ![r][q] = b]
         /\ receipts' \in [Runs -> [Seqs -> Bodies \cup {None}]]
<1>1. /\ run[r] # None /\ receipts[r][q] = None
      /\ receipts' = [receipts EXCEPT ![r][q] = b]
      /\ b # "output" => IngestLifecycle(r, b)
      /\ b = "output" => run' = run
  BY DEF IngestRunEvent, IsDuplicate, runVars
<1>2. receipts' \in [Runs -> [Seqs -> Bodies \cup {None}]]
  BY <1>1 DEF RowTypes, Bodies
<1>3. ASSUME run' = run PROVE RowsStay
  BY <1>3 DEF RowsStay, RowTypes
<1>4. ASSUME IngestStarted(r) PROVE RowsStay
  BY <1>1, RunEdges, <1>4, RunUpdate DEF FromQueued, CasRun, RowTypes, RunStatus, IngestStarted
<1>5. ASSUME IngestCompleted(r) PROVE RowsStay
  BY <1>1, RunEdges, <1>5, RunUpdate DEF CasRun, RowTypes, RunStatus, IngestCompleted
<1>6. ASSUME IngestFailedBeforeStart(r) PROVE RowsStay
  BY <1>1, <1>6, StartFailsRow, RunUpdate DEF IngestFailedBeforeStart
<1>7. ASSUME IngestFailed(r) PROVE RowsStay
  BY <1>1, RunEdges, <1>7, RunUpdate DEF CasRun, RowTypes, RunStatus, IngestFailed
<1>8. ASSUME IngestCancelled(r) PROVE RowsStay
  BY <1>8, RunEdges, RunUpdate DEF IngestCancelled, RunStatus
<1>9. b = "output" \/ run' = run \/ IngestStarted(r) \/ IngestCompleted(r)
        \/ IngestFailedBeforeStart(r) \/ IngestFailed(r) \/ IngestCancelled(r)
  BY <1>1 DEF IngestLifecycle, ReconcileDisconnected, IngestSettled, runVars
<1>10. RowsStay
  BY <1>1, <1>3, <1>4, <1>5, <1>6, <1>7, <1>8, <1>9
<1> QED
  BY <1>1, <1>2, <1>10

LEMMA QuietRows ==
  ASSUME RowTypes,
         \/ UNCHANGED storeVars \/ UserStep
         \/ \E c : SetComputerOnline(c) \/ SetComputerOffline(c)
  PROVE  RowsStay /\ receipts' = receipts /\ run' = run
<1>1. run' = run /\ receipts' = receipts
  BY DEF storeVars, runVars, UserStep, MarkReady, AcceptReview, RequestChanges, RetryTask,
         SetComputerOnline, SetComputerOffline
<1> QED
  BY <1>1 DEF RowTypes, RowsStay

-------------------------------------------------------------------------------
(* Steps of the server *)

LEMMA FrameKinds ==
  ASSUME NEW r \in Runs
  PROVE  /\ Frame("resume", r, 0, "") \in Frames
         /\ Frame("resumeTimeout", r, 0, "") \in Frames
         /\ StartOf(r) \in Frames /\ RejectOf(r) \in Frames
         /\ Frame("startAck", r, 0, "accepted") \in Frames
         /\ \A n \in Nat : Frame("stop", r, n, "") \in Frames
         /\ \A n \in 0..2, v \in {"accepted", "rejected"} : Frame("receipt", r, n, v) \in Frames
         /\ \A n \in 0..2, p \in Phases : Frame("event", r, n, p) \in Frames
         /\ \A n \in Nat, v \in {"accepted", "rejected"} : Frame("stopAck", r, n, v) \in Frames
         /\ \A v \in {"accepted", "process_exited"} : Frame("resumeAck", r, 0, v) \in Frames
<1> USE DEF Frame, Frames
<1>1. \A op \in Ops \ {"start", "startAck", "event"}, n \in Nat, v \in Verdicts : Frame(op, r, n, v) \in Frames
  OBVIOUS
<1>2. /\ Frame("resume", r, 0, "") \in Frames
      /\ Frame("resumeTimeout", r, 0, "") \in Frames
      /\ \A n \in Nat : Frame("stop", r, n, "") \in Frames
  BY <1>1 DEF Ops, Verdicts
<1>3. /\ \A n \in Nat, v \in {"accepted", "rejected"} :
           Frame("receipt", r, n, v) \in Frames /\ Frame("stopAck", r, n, v) \in Frames
      /\ \A v \in {"accepted", "process_exited"} : Frame("resumeAck", r, 0, v) \in Frames
  BY <1>1 DEF Ops, Verdicts
<1>4. /\ StartOf(r) \in Frames /\ RejectOf(r) \in Frames
      /\ Frame("startAck", r, 0, "accepted") \in Frames
  BY DEF StartOf, RejectOf, Ops, Verdicts
<1>5. ASSUME NEW n \in 0..2, NEW p \in Phases PROVE Frame("event", r, n, p) \in Frames
  <2>1. n \in Nat /\ "event" \in Ops /\ p \in Verdicts \cup Phases
    BY DEF Ops
  <2> QED
    BY <2>1
<1>6. 0..2 \subseteq Nat
  OBVIOUS
<1> QED
  BY <1>2, <1>3, <1>4, <1>5, <1>6

LEMMA SentGains ==
  ASSUME NetTypes, NEW c \in Conns, NEW f \in Frames
  PROVE  Sent(c, f) \in [Conns -> Seq(Frames)] /\ Gains(s2n, Sent(c, f), {f})
  BY GainsAppend DEF Sent, NetTypes

LEMMA AnswerGains ==
  ASSUME NetTypes, cur \in {0} \cup Conns, NEW c, NEW f \in Frames
  PROVE  Answer(c, f) \in [Conns -> Seq(Frames)] /\ Gains(n2s, Answer(c, f), {f})
BY GainsAppend, GainsSelf DEF Up, Answer, NetTypes

\* Nothing but the store, and what the server has still to do there.
LEMMA StoreStepKeeps ==
  ASSUME DispatchInv, UNCHANGED <<binding, reg, queued, startOps, nodeVars, netVars>>,
         RowsStay, receipts' = receipts,
         grace' \subseteq Runs, expiring' \subseteq Runs, stopDone' \subseteq Runs \X Intents
  PROVE  DispatchInv'
<1>1. ServerTypes' /\ NetTypes'
  BY DEF DispatchInv, Types, ServerTypes, NetTypes, netVars
<1>2. Work \in [Conns -> Seq(Frames)] /\ Work' = Work
  BY DEF DispatchInv, Types, ServerTypes, Bindings, Work
<1>3. Gains(s2n, s2n', {}) /\ Gains(n2s, n2s', {}) /\ Gains(Work, Work', {})
  BY <1>2, GainsSelf DEF DispatchInv, Types, NetTypes, netVars
<1>4. /\ \A c \in Conns : WaitsForStop(binding'[c])
      /\ reg' # 0 => binding'[reg'].side \in {"active", "ready"}
  BY DEF DispatchInv, InStepHere
<1>5. Ingests
  BY DEF Ingests, DispatchInv, Types, RowTypes
<1> QED
  BY <1>1, <1>3, <1>4, <1>5, ServerStepKeeps DEF RowsStay

\* One binding changes to b; F is sent, H is more work, and no run is started.
Moves(c, b, F, H) ==
  /\ b \in Bindings /\ WaitsForStop(b) /\ binding' = [binding EXCEPT ![c] = b]
  /\ Gain(binding[c].work, b.work, H) /\ \A f \in H : f.op # "startAck" /\ EventOK(f)'
  /\ s2n' \in [Conns -> Seq(Frames)] /\ Gains(s2n, s2n', F)
  /\ \A f \in F : f.op # "start" /\ ReceiptOK(f)'
  /\ n2s' \in [Conns -> Seq(Frames)] /\ Gains(n2s, n2s', {}) /\ stopNo' \in [Runs -> Nat]
  /\ reg' \in {0} \cup Conns
  /\ reg' # 0 => binding'[reg'].side \in {"active", "ready"}
  /\ grace' \subseteq Runs /\ expiring' \subseteq Runs /\ stopDone' \subseteq Runs \X Intents
  /\ queued' \subseteq queued /\ startOps' \subseteq startOps
  /\ UNCHANGED nodeVars /\ RowsStay /\ Ingests

LEMMA SameReceipts ==
  ASSUME RowTypes, receipts' = receipts PROVE Ingests
  BY DEF Ingests, RowTypes

\* A frame that is no event, no receipt.
LEMMA PlainFrames ==
  ASSUME NEW f PROVE /\ f.op # "event" => EventOK(f)'
                     /\ f.op # "receipt" => ReceiptOK(f)'
  BY DEF EventOK, ReceiptOK

LEMMA BindingStepKeeps ==
  ASSUME DispatchInv, NEW c \in Conns, NEW b, NEW F, NEW H, Moves(c, b, F, H)
  PROVE  DispatchInv'
<1>0. b \in Bindings
  BY DEF Moves
<1>1. /\ binding' \in [Conns -> Bindings]
      /\ binding'[c] = b /\ \A d \in Conns : d # c => binding'[d] = binding[d]
      /\ Gains(Work, Work', H)
  BY <1>0, BindingStep DEF DispatchInv, Types, ServerTypes, Moves
<1>2. ServerTypes' /\ NetTypes'
  BY <1>1 DEF DispatchInv, Types, ServerTypes, NetTypes, Moves
<1>3. \A d \in Conns : WaitsForStop(binding'[d])
  BY <1>1 DEF DispatchInv, InStepHere, Moves
<1> QED
  BY <1>1, <1>2, <1>3, ServerStepKeeps DEF RowsStay, Moves

LEMMA StoreOnlySteps ==
  ASSUME DispatchInv,
         \/ UserStep \/ GraceExpire
         \/ \E r \in Runs : ExpireRun(r) \/ \E intent \in Intents : AfterStop(r, intent)
  PROVE  DispatchInv'
<1>0. RowTypes /\ ServerTypes /\ NodeTypes /\ NetTypes
  BY DEF DispatchInv, Types
<1>1. ASSUME UserStep PROVE DispatchInv'
  BY <1>0, <1>1, QuietRows, StoreStepKeeps DEF UserStep, serverVars, ServerTypes
<1>2. ASSUME GraceExpire PROVE DispatchInv'
  BY <1>0, <1>2, QuietRows, StoreStepKeeps DEF GraceExpire, ServerTypes
<1>3. ASSUME NEW r \in Runs, ExpireRun(r) PROVE DispatchInv'
  BY <1>0, <1>3, DisconnectRows, StoreStepKeeps DEF ExpireRun, ServerTypes
<1>4. ASSUME NEW r \in Runs, NEW intent \in Intents, AfterStop(r, intent) PROVE DispatchInv'
  <2>1. RowsStay /\ receipts' = receipts
    BY <1>0, <1>4, DisconnectRows, CancelRows, QuietRows DEF AfterStop
  <2> QED
    BY <1>0, <1>4, <2>1, StoreStepKeeps DEF AfterStop, ServerTypes
<1> QED
  BY <1>1, <1>2, <1>3, <1>4

\* A binding with other callers' sets and one more unit of work, or one less.
LEMMA BindingTypes ==
  ASSUME Types, NEW c \in Conns
  PROVE  /\ binding[c] \in Bindings /\ binding[c].work \in Seq(Frames)
         /\ binding[c].snap \subseteq Runs /\ binding[c].todo \subseteq Runs
         /\ binding[c].start \subseteq Runs /\ binding[c].resume \subseteq Runs
         /\ binding[c].reconcile \subseteq Runs
         /\ binding[c].wait \subseteq Runs \X Intents
         /\ binding[c].stop \in [Runs -> {"idle", "sent", "acked"}]
         /\ DOMAIN binding = Conns
  BY DEF Types, ServerTypes, Bindings

\* What the server does with its store when nothing is sent and no work arrives.
LEMMA ListSteps ==
  ASSUME DispatchInv, NEW c \in Conns,
         \/ Activate(c) \/ ResumeList(c) \/ ServerClose(c)
         \/ \E r \in Runs : StopTimeout(c, r)
  PROVE  DispatchInv'
<1>0. Types /\ RowTypes /\ ServerTypes /\ NodeTypes /\ NetTypes /\ InStepHere
  BY DEF DispatchInv, Types
<1>1. /\ UNCHANGED storeVars => RowsStay /\ receipts' = receipts
      /\ \A k : SetComputerOnline(k) \/ SetComputerOffline(k) => RowsStay /\ receipts' = receipts
  BY <1>0, QuietRows
<1>2. /\ s2n \in [Conns -> Seq(Frames)] /\ Gains(s2n, s2n, {}) /\ Gains(n2s, n2s, {})
      /\ Gain(binding[c].work, binding[c].work, {}) /\ ActiveRuns \subseteq Runs
      /\ WaitsForStop(binding[c])
  BY <1>0, BindingTypes, GainsSelf, GainKinds DEF NetTypes, ActiveRuns, InStepHere
<1>3. CASE Activate(c)
  <2> DEFINE b == [binding[c] EXCEPT !.side = "active", !.snap = grace]
  <2>1. b \in Bindings /\ b.work = binding[c].work /\ b.side = "active" /\ WaitsForStop(b)
    BY <1>0, <1>2, BindingTypes DEF Bindings, ServerTypes, WaitsForStop
  <2>2. binding' = [binding EXCEPT ![c] = b]
    BY <1>3 DEF Activate
  <2> HIDE DEF b
  <2>3. binding'[reg'].side = "active" /\ RowsStay /\ receipts' = receipts
    BY <1>1, <1>3, <2>1, <2>2, <1>0, BindingTypes DEF Activate
  <2>5. Moves(c, b, {}, {})
    BY SameReceipts, PlainFrames, <1>0, <1>2, <1>3, <2>1, <2>2, <2>3
    DEF Activate, ServerTypes, NetTypes, netVars, Moves
  <2> QED
    BY <2>5, BindingStepKeeps
<1>4. CASE ResumeList(c)
  <2> DEFINE todo == (binding[c].snap \cap ActiveRuns) \cup {x \in Runs : UnconfirmedDisconnect(x)}
             b == [binding[c] EXCEPT !.side = "ready", !.snap = {}, !.todo = todo]
  <2>0. todo \subseteq Runs
    BY <1>2
  <2>1. b \in Bindings /\ b.work = binding[c].work /\ b.side = "ready" /\ WaitsForStop(b)
    <3> HIDE DEF todo
    <3> QED
      BY <1>0, <1>2, <2>0, BindingTypes DEF Bindings, WaitsForStop
  <2>2. binding' = [binding EXCEPT ![c] = b]
    BY <1>4 DEF ResumeList
  <2> HIDE DEF b
  <2>3. (reg' # 0 => binding'[reg'].side \in {"active", "ready"}) /\ RowsStay /\ receipts' = receipts
    BY <1>1, <1>4, <2>1, <2>2, <1>0, BindingTypes DEF ResumeList, ServerTypes, InStepHere
  <2>5. Moves(c, b, {}, {})
    BY SameReceipts, PlainFrames, <1>0, <1>2, <1>4, <2>1, <2>2, <2>3
    DEF ResumeList, ServerTypes, NetTypes, netVars, Moves
  <2> QED
    BY <2>5, BindingStepKeeps
<1>5. CASE ServerClose(c)
  <2> DEFINE b == ClosedBinding(binding[c])
  <2>1. b \in Bindings /\ b.work = binding[c].work /\ WaitsForStop(b)
    BY <1>0, <1>2, BindingTypes DEF Bindings, ClosedBinding, NewBinding, WaitsForStop
  <2>2. binding' = [binding EXCEPT ![c] = b]
    BY <1>5 DEF ServerClose
  <2> HIDE DEF b
  <2>3. (reg' # 0 => binding'[reg'].side \in {"active", "ready"}) /\ RowsStay /\ receipts' = receipts
    BY <1>1, <1>5, <2>1, <2>2, <1>0, BindingTypes DEF ServerClose, ServerTypes, InStepHere
  <2>4. n2s' \in [Conns -> Seq(Frames)] /\ Gains(n2s, n2s', {})
    BY <1>0, <1>5, GainsTake DEF ServerClose, NetTypes
  <2>5. Moves(c, b, {}, {})
    BY SameReceipts, PlainFrames, <1>0, <1>2, <1>5, <2>1, <2>2, <2>3, <2>4
    DEF ServerClose, ServerTypes, NetTypes, Moves
  <2> QED
    BY <2>5, BindingStepKeeps
<1>6. ASSUME NEW r \in Runs, StopTimeout(c, r) PROVE DispatchInv'
  <2> DEFINE b == StopSettled(c, binding[c], r)
  <2>1. b \in Bindings /\ b.work = binding[c].work /\ b.side = binding[c].side /\ WaitsForStop(b)
    BY <1>0, <1>2, BindingTypes DEF Bindings, StopSettled, WaitsForStop
  <2>2. binding' = [binding EXCEPT ![c] = b]
    BY <1>6 DEF StopTimeout
  <2> HIDE DEF b
  <2>3. (reg' # 0 => binding'[reg'].side \in {"active", "ready"}) /\ RowsStay /\ receipts' = receipts
    BY <1>1, <1>6, <2>1, <2>2, <1>0, BindingTypes DEF StopTimeout, ServerTypes, InStepHere
  <2>5. Moves(c, b, {}, {})
    BY SameReceipts, PlainFrames, <1>0, <1>2, <1>6, <2>1, <2>2, <2>3
    DEF StopTimeout, ServerTypes, NetTypes, netVars, Moves
  <2> QED
    BY <2>5, BindingStepKeeps
<1> QED
  BY <1>3, <1>4, <1>5, <1>6

\* dispatchRunStop on a binding with fewer processes to reconcile, at most.
LEMMA StopIsDispatched ==
  ASSUME DispatchInv, NEW c \in Conns, NEW b \in Bindings,
         b.work = binding[c].work, b.side = binding[c].side, WaitsForStop(b),
         NEW r \in Runs, NEW intent \in Intents, DispatchRunStop(c, b, r, intent),
         UNCHANGED <<storeVars, reg, grace, expiring, queued, startOps, stopDone, nodeVars, n2s>>
  PROVE  DispatchInv'
<1>0. Types /\ RowTypes /\ ServerTypes /\ NodeTypes /\ NetTypes /\ InStepHere
  BY DEF DispatchInv, Types
<1> DEFINE n == stopNo[r] + 1
           sends == b.stop[r] = "idle"
           f == Frame("stop", r, n, "")
           b2 == [b EXCEPT !.wait = @ \cup {<<r, intent>>}, !.stop[r] = IF sends THEN "sent" ELSE @]
<1>1. n \in Nat /\ f \in Frames /\ f.op = "stop"
  <2>1. n \in Nat
    BY <1>0 DEF NetTypes
  <2> HIDE DEF n
  <2> QED
    BY <2>1, FrameKinds DEF Frame
<1> HIDE DEF f
<1>2. b2 \in Bindings /\ b2.work = binding[c].work /\ b2.side = binding[c].side /\ WaitsForStop(b2)
  <2>1. /\ b.stop \in [Runs -> {"idle", "sent", "acked"}] /\ b.wait \subseteq Runs \X Intents
        /\ <<r, intent>> \in Runs \X Intents
    BY DEF Bindings
  <2>2. /\ b2.wait = b.wait \cup {<<r, intent>>} /\ b2.stop[r] # "idle"
        /\ \A x \in Runs : x # r => b2.stop[x] = b.stop[x]
        /\ b2.stop \in [Runs -> {"idle", "sent", "acked"}]
    BY <2>1 DEF Bindings
  <2>3. b2 \in Bindings /\ b2.work = binding[c].work /\ b2.side = binding[c].side
    BY <2>1, <2>2 DEF Bindings
  <2>4. WaitsForStop(b2)
    <3> HIDE DEF b2
    <3> QED
      BY <2>1, <2>2 DEF WaitsForStop
  <2> QED
    BY <2>3, <2>4
<1>3. binding' = [binding EXCEPT ![c] = b2]
  BY DEF DispatchRunStop
<1>4. /\ s2n' \in [Conns -> Seq(Frames)] /\ Gains(s2n, s2n', {f})
      /\ stopNo' \in [Runs -> Nat]
  BY <1>0, <1>1, SentGains, GainsSelf DEF DispatchRunStop, NetTypes, f
<1> HIDE DEF b2, n
<1>5. /\ reg' # 0 => binding'[reg'].side \in {"active", "ready"}
      /\ RowsStay /\ receipts' = receipts /\ Gains(n2s, n2s', {})
      /\ Gain(binding[c].work, b2.work, {})
  BY <1>0, <1>2, <1>3, BindingTypes, QuietRows, GainsSelf, GainKinds
  DEF ServerTypes, InStepHere, NetTypes
<1>6. Moves(c, b2, {f}, {})
  BY SameReceipts, PlainFrames, <1>0, <1>1, <1>2, <1>3, <1>4, <1>5 DEF Moves, ServerTypes, NetTypes
<1> QED
  BY <1>6, BindingStepKeeps

LEMMA StopSteps ==
  ASSUME DispatchInv, NEW c \in Conns, NEW r \in Runs,
         CancelRun(r) \/ ReconcileSurvivingProcess(c, r)
  PROVE  DispatchInv'
<1>0. Types /\ RowTypes /\ ServerTypes /\ NodeTypes /\ NetTypes /\ InStepHere
  BY DEF DispatchInv, Types
<1>1. CASE CancelRun(r)
  BY <1>0, <1>1, BindingTypes, StopIsDispatched DEF CancelRun, ServerTypes, InStepHere, Intents
<1>2. CASE ReconcileSurvivingProcess(c, r)
  <2> DEFINE b == [binding[c] EXCEPT !.reconcile = @ \ {r}]
  <2>1. b \in Bindings /\ b.work = binding[c].work /\ b.side = binding[c].side /\ WaitsForStop(b)
    BY <1>0, BindingTypes DEF Bindings, WaitsForStop, InStepHere
  <2>2. CASE DispatchRunStop(c, b, r, "reconcile")
    <3> HIDE DEF b
    <3> QED
      BY <1>2, <2>1, <2>2, StopIsDispatched DEF ReconcileSurvivingProcess, Intents
  <2>3. CASE binding' = [binding EXCEPT ![c] = b] /\ UNCHANGED <<stopNo, s2n>>
    <3> HIDE DEF b
    <3>1. /\ reg' # 0 => binding'[reg'].side \in {"active", "ready"}
          /\ RowsStay /\ receipts' = receipts /\ Gains(n2s, n2s', {}) /\ Gains(s2n, s2n', {})
          /\ Gain(binding[c].work, b.work, {})
      BY <1>0, <1>2, <2>1, <2>3, BindingTypes, QuietRows, GainsSelf, GainKinds
      DEF ServerTypes, InStepHere, NetTypes, ReconcileSurvivingProcess
    <3>2. Moves(c, b, {}, {})
      BY SameReceipts, PlainFrames, <1>0, <1>2, <2>1, <2>3, <3>1
      DEF Moves, ServerTypes, NetTypes, ReconcileSurvivingProcess
    <3> QED
      BY <3>2, BindingStepKeeps
  <2> QED
    BY <1>2, <2>2, <2>3 DEF ReconcileSurvivingProcess
<1> QED
  BY <1>1, <1>2

LEMMA ResumeSteps ==
  ASSUME DispatchInv, NEW c \in Conns, NEW r \in Runs,
         SendRunResume(c, r) \/ ResumeTimeout(c, r)
  PROVE  DispatchInv'
<1>0. Types /\ RowTypes /\ ServerTypes /\ NodeTypes /\ NetTypes /\ InStepHere
  BY DEF DispatchInv, Types
<1>a. RowsStay /\ receipts' = receipts /\ n2s' = n2s
  BY <1>0, QuietRows DEF netVars, SendRunResume, ResumeTimeout
<1>1. /\ RowsStay /\ receipts' = receipts /\ Gains(n2s, n2s', {}) /\ Gains(s2n, s2n, {})
      /\ WaitsForStop(binding[c]) /\ Gain(binding[c].work, binding[c].work, {})
  BY <1>0, <1>a, GainsSelf, GainKinds, BindingTypes DEF InStepHere, NetTypes
<1>2. CASE SendRunResume(c, r) /\ reg = c
  <2> DEFINE b == [binding[c] EXCEPT !.todo = @ \ {r}, !.resume = @ \cup {r}]
             f == Frame("resume", r, 0, "")
  <2>1. b \in Bindings /\ b.work = binding[c].work /\ b.side = binding[c].side /\ WaitsForStop(b)
    BY <1>0, <1>1, BindingTypes DEF Bindings, WaitsForStop
  <2>2. binding' = [binding EXCEPT ![c] = b]
    BY <1>2 DEF SendRunResume
  <2> HIDE DEF b
  <2>3. reg' # 0 => binding'[reg'].side \in {"active", "ready"}
    BY <1>0, <1>2, <2>1, <2>2, BindingTypes DEF ServerTypes, InStepHere, SendRunResume
  <2>4. s2n' \in [Conns -> Seq(Frames)] /\ Gains(s2n, s2n', {f}) /\ f.op = "resume"
    BY <1>0, <1>2, FrameKinds, SentGains DEF SendRunResume, Frame
  <2>5. Moves(c, b, {f}, {})
    <3> HIDE DEF f
    <3> QED
      BY SameReceipts, PlainFrames, <1>0, <1>1, <1>2, <2>1, <2>2, <2>3, <2>4 DEF Moves, ServerTypes, NetTypes, SendRunResume
  <2> QED
    BY <2>5, BindingStepKeeps
<1>3. CASE SendRunResume(c, r) /\ reg # c
  <2> DEFINE b == [binding[c] EXCEPT !.todo = {}]
  <2>1. b \in Bindings /\ b.work = binding[c].work /\ b.side = binding[c].side /\ WaitsForStop(b)
    BY <1>0, <1>1, BindingTypes DEF Bindings, WaitsForStop
  <2>2. binding' = [binding EXCEPT ![c] = b]
    BY <1>3 DEF SendRunResume
  <2> HIDE DEF b
  <2>3. reg' # 0 => binding'[reg'].side \in {"active", "ready"}
    BY <1>0, <1>3, <2>1, <2>2, BindingTypes DEF ServerTypes, InStepHere, SendRunResume
  <2>5. Moves(c, b, {}, {})
    BY SameReceipts, PlainFrames, <1>0, <1>1, <1>3, <2>1, <2>2, <2>3 DEF Moves, ServerTypes, NetTypes, SendRunResume
  <2> QED
    BY <2>5, BindingStepKeeps
<1>4. CASE ResumeTimeout(c, r)
  <2> DEFINE f == Frame("resumeTimeout", r, 0, "")
             b == [binding[c] EXCEPT !.resume = @ \ {r}, !.work = Append(@, f)]
  <2>0. /\ f \in Frames /\ f.op = "resumeTimeout"
        /\ Append(binding[c].work, f) \in Seq(Frames)
        /\ Gain(binding[c].work, Append(binding[c].work, f), {f})
    BY <1>0, BindingTypes, FrameKinds, GainKinds, AppendElems DEF Frame
  <2>1. /\ b \in Bindings /\ b.work = Append(binding[c].work, f) /\ b.side = binding[c].side
        /\ WaitsForStop(b)
    <3> HIDE DEF f
    <3> QED
      BY SameReceipts, PlainFrames, <1>0, <1>1, <2>0, BindingTypes DEF Bindings, WaitsForStop
  <2>2. binding' = [binding EXCEPT ![c] = b]
    BY <1>4 DEF ResumeTimeout
  <2> HIDE DEF b, f
  <2>3. reg' # 0 => binding'[reg'].side \in {"active", "ready"}
    BY <1>0, <1>4, <2>1, <2>2, BindingTypes DEF ServerTypes, InStepHere, ResumeTimeout
  <2>5. Moves(c, b, {}, {f})
    BY SameReceipts, PlainFrames, <1>0, <1>1, <1>4, <2>0, <2>1, <2>2, <2>3 DEF Moves, ServerTypes, NetTypes, ResumeTimeout, netVars
  <2> QED
    BY <2>5, BindingStepKeeps
<1> QED
  BY <1>2, <1>3, <1>4

\* One unit of the work of a connection is done.
LEMMA TakesWork ==
  ASSUME DispatchInv, NEW c \in Conns, binding[c].work # <<>>,
         NEW b, b \in {binding[c]} \/ \E r \in Runs :
                  b \in {StopSettled(c, binding[c], r), [binding[c] EXCEPT !.reconcile = @ \cup {r}]},
         binding' = [binding EXCEPT ![c] = [b EXCEPT !.work = Tail(@)]],
         stopDone' \subseteq Runs \X Intents, RowsStay, receipts' = receipts,
         UNCHANGED s2n, WorkUnchanged
  PROVE  DispatchInv'
<1>0. Types /\ RowTypes /\ ServerTypes /\ NodeTypes /\ NetTypes /\ InStepHere
  BY DEF DispatchInv, Types
<1>1. b \in Bindings /\ b.work = binding[c].work /\ b.side = binding[c].side /\ WaitsForStop(b)
  <2>0. WaitsForStop(binding[c])
    BY <1>0 DEF InStepHere
  <2>1. CASE b = binding[c]
    BY <1>0, <2>0, <2>1, BindingTypes
  <2>2. ASSUME NEW r \in Runs, b = StopSettled(c, binding[c], r)
        PROVE  b \in Bindings /\ b.work = binding[c].work /\ b.side = binding[c].side /\ WaitsForStop(b)
    <3>1. /\ b.wait = {w \in binding[c].wait : w[1] # r} /\ b.work = binding[c].work
          /\ b.side = binding[c].side
          /\ b.stop = [binding[c].stop EXCEPT ![r] = "idle"]
      BY <1>0, <2>2, BindingTypes DEF Bindings, StopSettled
    <3>2. b \in Bindings
      <4> DEFINE wt == {w \in binding[c].wait : w[1] # r}
                 st == [binding[c].stop EXCEPT ![r] = "idle"]
      <4>1. b = [binding[c] EXCEPT !.stop = st, !.wait = wt]
        BY <2>2 DEF StopSettled
      <4>2. wt \subseteq Runs \X Intents /\ st \in [Runs -> {"idle", "sent", "acked"}]
        BY <1>0, BindingTypes
      <4>3. binding[c] \in Bindings
        BY <1>0, BindingTypes
      <4> HIDE DEF wt, st
      <4> QED
        BY <4>1, <4>2, <4>3 DEF Bindings
    <3>3. WaitsForStop(b)
      BY <3>1, <1>0, <2>0, BindingTypes DEF WaitsForStop
    <3> QED
      BY <3>1, <3>2, <3>3
  <2>3. ASSUME NEW r \in Runs, b = [binding[c] EXCEPT !.reconcile = @ \cup {r}]
        PROVE  b \in Bindings /\ b.work = binding[c].work /\ b.side = binding[c].side /\ WaitsForStop(b)
    BY <1>0, <2>0, <2>3, BindingTypes DEF Bindings, WaitsForStop
  <2> QED
    BY <2>1, <2>2, <2>3
<1> DEFINE b2 == [b EXCEPT !.work = Tail(@)]
<1>2. /\ Gain(binding[c].work, Tail(b.work), {}) /\ Tail(b.work) \in Seq(Frames)
      /\ Gains(s2n, s2n', {}) /\ Gains(n2s, n2s', {})
  BY <1>0, <1>1, BindingTypes, GainKinds, GainsSelf DEF Gain, NetTypes, WorkUnchanged
<1>3. b2 \in Bindings /\ b2.work = Tail(b.work) /\ b2.side = binding[c].side /\ WaitsForStop(b2)
  BY <1>1, <1>2 DEF Bindings, WaitsForStop
<1> HIDE DEF b2
<1>4. reg' # 0 => binding'[reg'].side \in {"active", "ready"}
  BY <1>0, <1>3, BindingTypes DEF ServerTypes, InStepHere, WorkUnchanged, b2
<1>5. Moves(c, b2, {}, {})
  BY SameReceipts, PlainFrames, <1>0, <1>2, <1>3, <1>4 DEF Moves, ServerTypes, NetTypes, WorkUnchanged, b2
<1> QED
  BY <1>5, BindingStepKeeps

LEMMA WorkHead ==
  ASSUME Types, NEW c \in Conns, NEW op, Working(c, op)
  PROVE  /\ binding[c].work # <<>> /\ Head(binding[c].work) \in Frames
         /\ Head(binding[c].work) \in ToSet(binding[c].work)
         /\ Head(binding[c].work).run \in Runs
<1>1. Head(binding[c].work) \in Frames /\ Head(binding[c].work) \in ToSet(binding[c].work)
  BY BindingTypes, TailElems DEF Working
<1> QED
  BY <1>1 DEF Working, Frames

LEMMA WorkSteps ==
  ASSUME DispatchInv, NEW c \in Conns,
         \/ WorkStartRejected(c) \/ WorkResumeRejected(c)
         \/ WorkResumeTimeout(c) \/ WorkStopAck(c)
  PROVE  DispatchInv'
<1>0. Types /\ RowTypes /\ ServerTypes /\ NodeTypes /\ NetTypes /\ InStepHere
  BY DEF DispatchInv, Types
<1> DEFINE r == Head(binding[c].work).run
<1>1. /\ binding[c].work # <<>> /\ r \in Runs
      /\ WorkDone(c) = [binding EXCEPT ![c] = [binding[c] EXCEPT !.work = Tail(@)]]
  BY <1>0, WorkHead
  DEF WorkStartRejected, WorkResumeRejected, WorkResumeTimeout, WorkStopAck, WorkDone
<1> HIDE DEF r
<1>2. CASE WorkStartRejected(c)
  BY <1>0, <1>1, <1>2, RejectRows, TakesWork DEF WorkStartRejected, ServerTypes, r
<1>3. CASE WorkResumeRejected(c)
  BY <1>0, <1>1, <1>3, DisconnectRows, TakesWork DEF WorkResumeRejected, ServerTypes, r
<1>4. CASE WorkResumeTimeout(c)
  <2>1. RowsStay /\ receipts' = receipts
    BY <1>0, <1>1, <1>4, DisconnectRows DEF WorkResumeTimeout, r
  <2>2. CASE binding' = WorkDone(c)
    BY <1>0, <1>1, <1>4, <2>1, <2>2, TakesWork DEF WorkResumeTimeout, ServerTypes
  <2>3. CASE binding' = [WorkDone(c) EXCEPT ![c].reconcile = @ \cup {r}]
    <3> DEFINE b == [binding[c] EXCEPT !.reconcile = @ \cup {r}]
    <3>1. binding' = [binding EXCEPT ![c] = [b EXCEPT !.work = Tail(@)]]
      <4> DEFINE t == [binding[c] EXCEPT !.work = Tail(@)]
      <4>1. binding' = [binding EXCEPT ![c] = [t EXCEPT !.reconcile = @ \cup {r}]]
        BY <1>0, <1>1, <2>3, BindingTypes
      <4>2. [t EXCEPT !.reconcile = @ \cup {r}] = [b EXCEPT !.work = Tail(@)]
        BY <1>0, BindingTypes DEF Bindings
      <4> QED
        BY <4>1, <4>2
    <3> HIDE DEF b
    <3> QED
      BY <1>0, <1>1, <1>4, <2>1, <3>1, TakesWork DEF WorkResumeTimeout, ServerTypes, b
  <2> QED
    BY <1>4, <2>2, <2>3 DEF WorkResumeTimeout, r
<1>5. CASE WorkStopAck(c)
  <2> DEFINE b == StopSettled(c, binding[c], r)
  <2>1. binding' = [binding EXCEPT ![c] = [b EXCEPT !.work = Tail(@)]]
    <3> DEFINE t == [binding[c] EXCEPT !.work = Tail(@)]
    <3>1. binding' = [binding EXCEPT ![c] = StopSettled(c, t, r)]
      BY <1>0, <1>1, <1>5, BindingTypes DEF WorkStopAck, r
    <3>2. StopSettled(c, t, r) = [b EXCEPT !.work = Tail(@)]
      BY <1>0, BindingTypes DEF Bindings, StopSettled
    <3> QED
      BY <3>1, <3>2
  <2>2. RowsStay /\ receipts' = receipts /\ stopDone' \subseteq Runs \X Intents
    BY <1>0, <1>5, BindingTypes, QuietRows DEF WorkStopAck, ServerTypes
  <2> HIDE DEF b
  <2> QED
    BY <1>1, <1>5, <2>1, <2>2, TakesWork DEF WorkStopAck, b
<1> QED
  BY <1>2, <1>3, <1>4, <1>5

LEMMA NewBindingKinds ==
  /\ NewBinding \in Bindings /\ NewBinding.work = <<>> /\ WaitsForStop(NewBinding)
  /\ \A x \in {"none", "closed"} : /\ [NewBinding EXCEPT !.side = x] \in Bindings
                                   /\ [NewBinding EXCEPT !.side = x].work = <<>>
                                   /\ WaitsForStop([NewBinding EXCEPT !.side = x])
  BY NoElems DEF NewBinding, Bindings, WaitsForStop

LEMMA RestartKeeps == ASSUME DispatchInv, ServerRestart PROVE DispatchInv'
<1>0. Types /\ RowTypes /\ ServerTypes /\ NodeTypes /\ NetTypes /\ InStepHere
  BY DEF DispatchInv, Types
<1>1. RowsStay /\ receipts' = receipts
  BY <1>0, QuietRows DEF ServerRestart
<1>2. ASSUME NEW c \in Conns
      PROVE  /\ binding'[c] \in Bindings /\ binding'[c].work = <<>> /\ WaitsForStop(binding'[c])
             /\ n2s'[c] = <<>>
  BY NewBindingKinds DEF ServerRestart
<1>3. ServerTypes' /\ NetTypes'
  BY <1>2, NoElems, <1>0 DEF ServerRestart, ServerTypes, NetTypes, ActiveRuns
<1>4. Gains(s2n, s2n', {}) /\ Gains(n2s, n2s', {}) /\ Gains(Work, Work', {})
  <2>1. \A c \in Conns : Gain(n2s[c], n2s'[c], {}) /\ Gain(Work[c], Work'[c], {})
    BY <1>0, <1>2, BindingTypes, GainKinds DEF NetTypes, Work
  <2> QED
    BY <1>0, <2>1, GainsSelf DEF Gains, NetTypes, ServerRestart
<1>5. UNCHANGED nodeVars /\ queued' \subseteq queued /\ startOps' \subseteq startOps /\ reg' = 0
  BY DEF ServerRestart
<1> QED
  BY <1>0, <1>1, <1>2, <1>3, <1>4, <1>5, ServerStepKeeps, SameReceipts DEF RowsStay

\* A frame of a daemon is received: its answers settle what was asked.
LEMMA ReceivePlain ==
  ASSUME DispatchInv, NEW c \in Conns, Receive(c), NEW f, f = Head(n2s[c]),
         f.op = "startAck" /\ f.run \in binding[c].start => f.status = "accepted"
  PROVE  DispatchInv'
<1>0. Types /\ RowTypes /\ ServerTypes /\ NodeTypes /\ NetTypes /\ InStepHere
  BY DEF DispatchInv, Types
<1>1. f \in Frames /\ f \in ToSet(n2s[c]) /\ f.run \in Runs /\ EventOK(f)
  <2>1. f \in Frames /\ f \in ToSet(n2s[c])
    BY <1>0, TailElems DEF NetTypes, Receive
  <2> QED
    BY <2>1 DEF Frames, DispatchInv, EventsFollow, EventsUp
<1> DEFINE b == Arrived(binding[c], f)
           H == IF b.work = binding[c].work THEN {} ELSE {f}
<1>2. /\ b \in Bindings /\ b.side = binding[c].side /\ WaitsForStop(b)
      /\ b.work = binding[c].work \/ (b.work = Append(binding[c].work, f) /\ f.op # "startAck")
  <2>1. WaitsForStop(binding[c]) /\ Append(binding[c].work, f) \in Seq(Frames)
    BY <1>0, <1>1, BindingTypes, AppendElems DEF InStepHere
  <2>2. CASE f.op = "event"
    <3>1. b = [binding[c] EXCEPT !.work = Append(binding[c].work, f)]
      BY <2>2 DEF Arrived
    <3> HIDE DEF b
    <3>2. /\ b \in Bindings /\ b.wait = binding[c].wait /\ b.stop = binding[c].stop
          /\ b.side = binding[c].side /\ b.work = Append(binding[c].work, f)
      BY <1>0, <2>1, <3>1, BindingTypes DEF Bindings
    <3>3. WaitsForStop(b)
      BY <2>1, <3>2 DEF WaitsForStop
    <3> QED
      BY <2>2, <3>2, <3>3
  <2>3. CASE f.op = "stopAck"
    <3> DEFINE t == [binding[c].stop EXCEPT ![f.run] = "acked"]
               w == Append(binding[c].work, f)
    <3>1. /\ t \in [Runs -> {"idle", "sent", "acked"}] /\ t[f.run] = "acked"
          /\ \A x \in Runs : x # f.run => t[x] = binding[c].stop[x]
      BY <1>0, <1>1, BindingTypes
    <3>2. b = [binding[c] EXCEPT !.stop = t, !.work = w] \/ b = binding[c]
      BY <2>3 DEF Arrived
    <3> HIDE DEF t, w, b
    <3>3. CASE b = binding[c]
      BY <1>0, <2>1, <2>3, <3>3, BindingTypes
    <3>4. CASE b = [binding[c] EXCEPT !.stop = t, !.work = w]
      <4>1. binding[c] \in Bindings /\ binding[c].wait \subseteq Runs \X Intents
        BY <1>0, BindingTypes
      <4>2. b \in Bindings /\ b.wait = binding[c].wait /\ b.stop = t /\ b.work = w /\ b.side = binding[c].side
        BY <2>1, <3>1, <3>4, <4>1 DEF Bindings, w
      <4>3. WaitsForStop(b)
        BY <2>1, <3>1, <4>1, <4>2 DEF WaitsForStop
      <4> QED
        BY <2>3, <4>2, <4>3 DEF w
    <3> QED
      BY <3>2, <3>3, <3>4
  <2>7. /\ binding[c] \in Bindings /\ binding[c].start \subseteq Runs
        /\ binding[c].resume \subseteq Runs /\ binding[c].reconcile \subseteq Runs
    BY <1>0, BindingTypes
  <2>8. ASSUME NEW x \in Bindings, x.wait = binding[c].wait, x.stop = binding[c].stop
        PROVE  WaitsForStop(x)
    BY <2>1, <2>8 DEF WaitsForStop
  <2>4. CASE f.op = "startAck"
    <3>1. CASE f.run \in binding[c].start /\ f.status = "accepted"
      <4>1. b = [binding[c] EXCEPT !.start = binding[c].start \ {f.run}, !.work = binding[c].work]
        BY <2>4, <3>1 DEF Arrived
      <4> HIDE DEF b
      <4>2. /\ b \in Bindings /\ b.wait = binding[c].wait /\ b.stop = binding[c].stop
            /\ b.side = binding[c].side /\ b.work = binding[c].work
        BY <2>7, <4>1 DEF Bindings
      <4> QED
        BY <2>8, <4>2
    <3>2. CASE f.run \notin binding[c].start
      <4>1. b = binding[c]
        BY <2>4, <3>2 DEF Arrived
      <4> HIDE DEF b
      <4> QED
        BY <2>1, <2>7, <4>1
    <3> QED
      BY <1>1, <2>4, <3>1, <3>2
  <2>5. CASE f.op = "resumeAck"
    <3>1. CASE f.run \in binding[c].resume /\ f.status = "accepted"
      <4>1. b = [binding[c] EXCEPT !.resume = binding[c].resume \ {f.run},
                                   !.reconcile = binding[c].reconcile \cup {f.run}]
        BY <2>5, <3>1 DEF Arrived
      <4>3. f.run \in Runs
        BY <2>7, <3>1
      <4> HIDE DEF b
      <4>2. /\ b \in Bindings /\ b.wait = binding[c].wait /\ b.stop = binding[c].stop
            /\ b.side = binding[c].side /\ b.work = binding[c].work
        BY <2>7, <4>1, <4>3 DEF Bindings
      <4> QED
        BY <2>8, <4>2
    <3>2. CASE f.run \in binding[c].resume /\ f.status # "accepted"
      <4>1. b = [binding[c] EXCEPT !.resume = binding[c].resume \ {f.run},
                                   !.work = Append(binding[c].work, f)]
        BY <2>5, <3>2 DEF Arrived
      <4> HIDE DEF b
      <4>2. /\ b \in Bindings /\ b.wait = binding[c].wait /\ b.stop = binding[c].stop
            /\ b.side = binding[c].side /\ b.work = Append(binding[c].work, f)
        BY <2>1, <2>7, <4>1 DEF Bindings
      <4> QED
        BY <2>5, <2>8, <4>2
    <3>3. CASE f.run \notin binding[c].resume
      <4>1. b = binding[c]
        BY <2>5, <3>3 DEF Arrived
      <4> HIDE DEF b
      <4> QED
        BY <2>1, <2>7, <4>1
    <3> QED
      BY <3>1, <3>2, <3>3
  <2>6. CASE f.op \notin {"event", "stopAck", "startAck", "resumeAck"}
    <3>1. b = binding[c]
      BY <2>6 DEF Arrived
    <3> HIDE DEF b
    <3> QED
      BY <2>1, <2>7, <3>1
  <2> QED
    BY <2>2, <2>3, <2>4, <2>5, <2>6
<1>3. binding' = [binding EXCEPT ![c] = b]
  BY DEF Receive
<1>4. Gain(binding[c].work, b.work, H)
  BY <1>0, <1>1, <1>2, BindingTypes, GainKinds
<1>5. \A x \in H : x.op # "startAck" /\ EventOK(x)'
  BY <1>1, <1>2 DEF EventOK, StartAccepted, Receive, storeVars, runVars, nodeVars
<1> HIDE DEF b, H
<1>6. /\ n2s' \in [Conns -> Seq(Frames)] /\ Gains(n2s, n2s', {}) /\ Gains(s2n, s2n', {})
      /\ RowsStay /\ receipts' = receipts
  BY <1>0, GainsTake, GainsSelf, QuietRows DEF Receive, NetTypes
<1>7. reg' # 0 => binding'[reg'].side \in {"active", "ready"}
  BY <1>0, <1>2, <1>3, BindingTypes DEF ServerTypes, InStepHere, Receive
<1>8. Moves(c, b, {}, H)
  BY SameReceipts, <1>0, <1>2, <1>3, <1>4, <1>5, <1>6, <1>7
  DEF Moves, ServerTypes, NetTypes, Receive
<1> QED
  BY <1>8, BindingStepKeeps

\* The answer of a start that failed comes in, once.
LEMMA ReceiveReject ==
  ASSUME DispatchInv, NEW c \in Conns, Receive(c), NEW f, f = Head(n2s[c]),
         f.op = "startAck", f.run \in binding[c].start, f.status # "accepted"
  PROVE  DispatchInv'
<1>0. Types /\ RowTypes /\ ServerTypes /\ NodeTypes /\ NetTypes /\ InStepHere /\ OneCopy
  BY DEF DispatchInv, Types
<1>1. /\ f \in Frames /\ f \in ToSet(n2s[c]) /\ n2s[c] \in Seq(Frames) /\ n2s[c] # <<>>
      /\ ToSet(Tail(n2s[c])) \subseteq ToSet(n2s[c]) /\ Tail(n2s[c]) \in Seq(Frames)
      /\ \A x : Once(n2s[c], x) => Once(Tail(n2s[c]), x) /\ (f = x => x \notin ToSet(Tail(n2s[c])))
  BY <1>0, TailElems DEF NetTypes, Receive
<1>2. f = RejectOf(f.run) /\ f.run \in Runs
  BY <1>1 DEF Frames, RejectOf, Frame
<1> DEFINE w == Append(binding[c].work, f)
           b == [binding[c] EXCEPT !.start = @ \ {f.run}, !.work = w]
<1>3. /\ w \in Seq(Frames) /\ ToSet(w) = ToSet(binding[c].work) \cup {f}
      /\ \A x : Once(binding[c].work, x) /\ (f # x \/ x \notin ToSet(binding[c].work)) => Once(w, x)
      /\ Gain(binding[c].work, w, {f})
  BY <1>0, <1>1, BindingTypes, AppendElems, GainKinds
<1> HIDE DEF w
<1>4. b \in Bindings /\ b.work = w /\ b.side = binding[c].side /\ WaitsForStop(b)
  <2>1. binding[c] \in Bindings /\ WaitsForStop(binding[c])
    BY <1>0, BindingTypes DEF InStepHere
  <2>2. b \in Bindings /\ b.work = w /\ b.side = binding[c].side /\ b.wait = binding[c].wait
    BY <1>3, <2>1 DEF Bindings
  <2> QED
    BY <2>1, <2>2 DEF WaitsForStop
<1>5. binding' = [binding EXCEPT ![c] = b] /\ n2s' = [n2s EXCEPT ![c] = Tail(@)]
  BY <1>1, <1>2 DEF Receive, Arrived, w
<1> HIDE DEF b
<1>6. /\ binding' \in [Conns -> Bindings]
      /\ binding'[c] = b /\ \A d \in Conns : d # c => binding'[d] = binding[d]
      /\ Gains(Work, Work', {f})
  BY <1>0, <1>3, <1>4, <1>5, BindingStep DEF ServerTypes
<1>7. /\ n2s' \in [Conns -> Seq(Frames)] /\ Gains(n2s, n2s', {}) /\ Gains(s2n, s2n', {})
      /\ RowsStay /\ receipts' = receipts
  BY <1>0, <1>1, <1>5, GainsTake, GainsSelf, QuietRows DEF Receive, NetTypes
<1>8. Types' /\ EventsFollow' /\ InStepHere'
  <2>1. ServerTypes' /\ NetTypes'
    BY <1>0, <1>6, <1>7 DEF ServerTypes, NetTypes, Receive
  <2>2. /\ \A d \in Conns : WaitsForStop(binding'[d])
        /\ reg' # 0 => binding'[reg'].side \in {"active", "ready"}
    BY <1>0, <1>4, <1>6 DEF InStepHere, ServerTypes, Receive
  <2>3. \A x \in {f} : EventOK(x)'
    BY PlainFrames
  <2>4. UNCHANGED nodeVars /\ Ingests
    BY <1>0, <1>7, SameReceipts DEF Receive
  <2>5. PICK H : H = {f}
    OBVIOUS
  <2>6. /\ Gains(Work, Work', H) /\ \A x \in H : EventOK(x)'
        /\ Gains(s2n, s2n', {}) /\ \A x \in {} : ReceiptOK(x)'
        /\ Gains(n2s, n2s', {}) /\ run' \in [Runs -> RunStatus \cup {None}]
    BY <1>6, <1>7, <2>3, <2>5 DEF RowsStay
  <2> QED
    BY <2>1, <2>2, <2>4, <2>6, ServerStepRest
<1>9. OnePlace' /\ OneCopy'
  <2>1. ASSUME NEW r \in Runs, NEW d \in Conns
        PROVE  /\ RejectedOn(r, d)' => RejectedOn(r, d)
               /\ Once(n2s'[d], RejectOf(r)) /\ Once(binding'[d].work, RejectOf(r))
               /\ RejectOf(r) \in ToSet(n2s'[d]) => RejectOf(r) \notin ToSet(binding'[d].work)
    BY <1>0, <1>5, <1>6, <1>4, <1>1, <1>3 DEF OneCopy, NetTypes, RejectedOn
  <2>2. /\ UNCHANGED <<run, queued, startOps, spawned, nodeTodo, s2n>>
        /\ \A r \in Runs, d \in Conns : Once(s2n[d], StartOf(r))
    BY <1>0 DEF Receive, storeVars, runVars, nodeVars, OneCopy
  <2> QED
    BY <2>1, <2>2, PlacesShrink DEF DispatchInv
<1> QED
  BY <1>8, <1>9 DEF DispatchInv

LEMMA ReceiveKeeps == ASSUME DispatchInv, NEW c \in Conns, Receive(c) PROVE DispatchInv'
  BY ReceivePlain, ReceiveReject

\* An event is ingested, or was, or is refused; its receipt says which.
LEMMA WorkEventKeeps ==
  ASSUME DispatchInv, NEW c \in Conns, WorkEvent(c), NEW f, f = Head(binding[c].work)
  PROVE  DispatchInv'
<1>0. Types /\ RowTypes /\ ServerTypes /\ NodeTypes /\ NetTypes /\ InStepHere
  BY DEF DispatchInv, Types
<1> DEFINE b == [binding[c] EXCEPT !.work = Tail(@)]
           g == Frame("receipt", f.run, f.n, "accepted")
           h == Frame("receipt", f.run, f.n, "rejected")
<1>1. /\ binding[c].work # <<>> /\ f \in Frames /\ f.run \in Runs /\ f.op = "event"
      /\ f.n \in 0..2 /\ f.status \in Phases /\ EventOK(f)
  BY <1>0, WorkHead DEF WorkEvent, Working, Frames, DispatchInv, EventsFollow, EventsUp
<1>2. /\ spawned[f.run] # 0
      /\ f.n = 0 => f.status = "started"
      /\ f.n \in Seqs /\ f.n \in Nat /\ 0 \in Seqs
  BY <1>1, DispatchAssumption DEF EventOK, DispatchAssumption
<1>3. binding' = [binding EXCEPT ![c] = b]
  BY DEF WorkEvent, WorkDone
<1>4. /\ Gain(binding[c].work, Tail(binding[c].work), {}) /\ Tail(binding[c].work) \in Seq(Frames)
      /\ Gains(n2s, n2s', {}) /\ WaitsForStop(binding[c])
  BY <1>0, <1>1, BindingTypes, GainKinds, GainsSelf
  DEF Gain, NetTypes, WorkEvent, WorkUnchanged, InStepHere
<1>5. b \in Bindings /\ b.work = Tail(binding[c].work) /\ b.side = binding[c].side /\ WaitsForStop(b)
  BY <1>0, <1>4, BindingTypes DEF Bindings, WaitsForStop
<1>6. g \in Frames /\ h \in Frames
  BY <1>1, FrameKinds
<1>7. /\ g.op = "receipt" /\ g.run = f.run /\ g.n = f.n
      /\ h.op = "receipt" /\ h.status = "rejected"
  BY DEF Frame
<1> HIDE DEF b, g, h
<1>8. reg' # 0 => binding'[reg'].side \in {"active", "ready"}
  BY <1>0, <1>3, <1>5, BindingTypes DEF ServerTypes, InStepHere, WorkEvent, WorkUnchanged
<1>9. \E x \in {g, h} : /\ s2n' = Sent(c, x) /\ ReceiptOK(x)'
                        /\ RowsStay /\ Ingests
  <2>1. CASE /\ ~IsDuplicate(f.run, f.n)
             /\ IngestRunEvent(f.run, f.n, f.status)
             /\ s2n' = Sent(c, g)
    <3>1. /\ RowsStay /\ receipts[f.run][f.n] = None
          /\ receipts' = [receipts EXCEPT ![f.run][f.n] = f.status]
          /\ receipts' \in [Runs -> [Seqs -> Bodies \cup {None}]]
      BY <1>0, <1>1, <1>2, <2>1, IngestRows
    <3>2. Ingests
      BY <1>0, <1>1, <1>2, <3>1 DEF Ingests, RowTypes
    <3>3. ReceiptOK(g)'
      BY <1>0, <1>1, <1>2, <1>7, <3>1 DEF ReceiptOK, RowTypes
    <3> QED
      BY <2>1, <3>1, <3>2, <3>3
  <2>2. CASE /\ IsDuplicate(f.run, f.n) /\ UNCHANGED storeVars
             /\ receipts[f.run][f.n] = f.status /\ s2n' = Sent(c, g)
    BY <1>0, <2>2, QuietRows, <1>2, <1>7, SameReceipts DEF ReceiptOK
  <2>3. CASE UNCHANGED storeVars /\ s2n' = Sent(c, h)
    BY <1>0, <2>3, QuietRows, <1>7, SameReceipts DEF ReceiptOK
  <2> QED
    BY <2>1, <2>2, <2>3 DEF WorkEvent, g, h
<1>10. PICK x \in {g, h} : s2n' = Sent(c, x) /\ ReceiptOK(x)' /\ RowsStay /\ Ingests
  BY <1>9
<1>11. Moves(c, b, {x}, {})
  BY <1>0, <1>3, <1>4, <1>5, <1>6, <1>7, <1>8, <1>10, SentGains
  DEF Moves, ServerTypes, NetTypes, WorkEvent, WorkUnchanged
<1> QED
  BY <1>11, BindingStepKeeps

-------------------------------------------------------------------------------
(* A start moves on at the server *)

\* A run is queued: nothing is known of it yet.
LEMMA AssignKeeps ==
  ASSUME DispatchInv, NEW t \in Tasks, NEW r \in Runs, Assign(t, r) PROVE DispatchInv'
<1>0. Types /\ RowTypes /\ ServerTypes /\ NodeTypes /\ NetTypes /\ InStepHere
  BY DEF DispatchInv, Types
<1>1. /\ run[r] = None /\ run' = [run EXCEPT ![r] = "queued"] /\ receipts' = receipts
      /\ queued' = queued \cup {r}
      /\ UNCHANGED <<binding, reg, grace, expiring, startOps, stopDone, nodeVars, netVars>>
  BY DEF Assign, AssignTask
<1>2. RowsStay
  BY <1>0, <1>1, RunUpdate DEF RunStatus
<1>3. Types' /\ EventsFollow' /\ InStepHere'
  <2>1. ServerTypes' /\ NetTypes'
    BY <1>0, <1>1 DEF ServerTypes, NetTypes, netVars
  <2>2. Work' = Work /\ Work \in [Conns -> Seq(Frames)]
    BY <1>0, <1>1, BindingTypes DEF Work
  <2>3. Gains(s2n, s2n', {}) /\ Gains(n2s, n2s', {}) /\ Gains(Work, Work', {})
    BY <1>0, <1>1, <2>2, GainsSelf DEF NetTypes, netVars
  <2> QED
    BY <1>0, <1>1, <1>2, <2>1, <2>3, SameReceipts, ServerStepRest DEF RowsStay, InStepHere
<1>4. OnePlace' /\ OneCopy'
  <2>1. /\ OneCopy' <=> OneCopy
        /\ \A x \in Runs : /\ Dispatching(x)' <=> Dispatching(x)
                           /\ OnWire(x)' <=> OnWire(x)
                           /\ Starting(x)' <=> Starting(x)
                           /\ Rejected(x)' <=> Rejected(x)
                           /\ run'[x] = None => run[x] = None
                           /\ x # r => run'[x] = run[x]
    BY <1>0, <1>1, <1>2
    DEF OneCopy, Dispatching, OnWire, Starting, Rejected, RejectedOn, nodeVars, netVars, RowsStay,
        RowTypes
  <2>2. run'[r] # None /\ spawned' = spawned
    BY <1>0, <1>1, StoreAssumption DEF RowTypes, StoreAssumption, RunStatus, nodeVars
  <2> QED
    BY <1>1, <2>1, <2>2 DEF DispatchInv, OnePlace
<1> QED
  BY <1>3, <1>4 DEF DispatchInv

LEMMA OnRunQueuedKeeps ==
  ASSUME DispatchInv, NEW r \in Runs, OnRunQueued(r) PROVE DispatchInv'
<1>0. Types /\ RowTypes /\ ServerTypes /\ NodeTypes /\ NetTypes /\ InStepHere
  BY DEF DispatchInv, Types
<1>1. /\ r \in queued /\ queued' = queued \ {r}
      /\ startOps' = startOps \/ (reg \in Conns /\ startOps' = startOps \cup {<<r, reg>>})
      /\ UNCHANGED <<storeVars, binding, reg, grace, expiring, stopDone, nodeVars, netVars>>
      /\ run' = run /\ receipts' = receipts
  BY <1>0 DEF OnRunQueued, ServerTypes, storeVars, runVars
<1>2. RowsStay
  BY <1>0, <1>1, QuietRows
<1>3. Types' /\ EventsFollow' /\ InStepHere'
  <2>1. ServerTypes' /\ NetTypes'
    BY <1>0, <1>1 DEF ServerTypes, NetTypes, netVars
  <2>2. Work' = Work /\ Work \in [Conns -> Seq(Frames)]
    BY <1>0, <1>1, BindingTypes DEF Work
  <2>3. Gains(s2n, s2n', {}) /\ Gains(n2s, n2s', {}) /\ Gains(Work, Work', {})
    BY <1>0, <1>1, <2>2, GainsSelf DEF NetTypes, netVars
  <2> QED
    BY <1>0, <1>1, <1>2, <2>1, <2>3, SameReceipts, ServerStepRest DEF RowsStay, InStepHere
<1>4. OnePlace' /\ OneCopy'
  <2>1. ASSUME NEW x \in Runs
        PROVE  /\ x # r => (Dispatching(x)' => Dispatching(x))
               /\ OnWire(x)' <=> OnWire(x)
               /\ Starting(x)' <=> Starting(x)
               /\ Rejected(x)' <=> Rejected(x)
    BY <1>1 DEF Dispatching, OnWire, Starting, Rejected, RejectedOn, nodeVars, netVars
  <2>2. spawned' = spawned
    BY <1>1 DEF nodeVars
  <2>3. OnePlace'
    BY <1>1, <2>1, <2>2 DEF DispatchInv, OnePlace
  <2>4. OneCopy'
    BY <1>1 DEF DispatchInv, OnePlace, OneCopy, Dispatching, RejectedOn, nodeVars, netVars
  <2> QED
    BY <2>3, <2>4
<1> QED
  BY <1>3, <1>4 DEF DispatchInv

LEMMA SendRunStartKeeps ==
  ASSUME DispatchInv, NEW r \in Runs, NEW c \in Conns, SendRunStart(r, c) PROVE DispatchInv'
<1>0. Types /\ RowTypes /\ ServerTypes /\ NodeTypes /\ NetTypes /\ InStepHere
  BY DEF DispatchInv, Types
<1> DEFINE f == StartOf(r)
           b == [binding[c] EXCEPT !.start = @ \cup {r}]
           B == binding' = binding \/ binding' = [binding EXCEPT ![c] = b]
<1>1. /\ <<r, c>> \in startOps /\ startOps' = startOps \ {<<r, c>>}
      /\ B /\ (s2n' = s2n \/ s2n' = [s2n EXCEPT ![c] = Append(@, f)])
      /\ UNCHANGED <<storeVars, reg, grace, expiring, queued, stopDone, nodeVars, n2s, stopNo>>
      /\ run' = run /\ receipts' = receipts
  BY DEF SendRunStart, Sent, StartOf, storeVars, runVars
<1>2. b \in Bindings /\ b.work = binding[c].work /\ b.side = binding[c].side /\ WaitsForStop(b)
  BY <1>0, BindingTypes DEF Bindings, WaitsForStop, InStepHere
<1> HIDE DEF b
<1>3. /\ binding' \in [Conns -> Bindings] /\ \A d \in Conns : WaitsForStop(binding'[d])
      /\ \A d \in Conns : binding'[d].work = binding[d].work /\ binding'[d].side = binding[d].side
  BY <1>0, <1>1, <1>2 DEF ServerTypes, InStepHere
<1>4. f \in Frames /\ f.op = "start"
  BY FrameKinds DEF StartOf, Frame
<1>5. s2n' \in [Conns -> Seq(Frames)] /\ Gains(s2n, s2n', {f})
  BY <1>0, <1>1, <1>4, GainsAppend DEF NetTypes
<1>6. Types' /\ EventsFollow' /\ InStepHere'
  <2>1. ServerTypes' /\ NetTypes'
    BY <1>0, <1>1, <1>3, <1>5 DEF ServerTypes, NetTypes
  <2>2. Work' = Work /\ Work \in [Conns -> Seq(Frames)]
    BY <1>0, <1>3, BindingTypes DEF Work
  <2>3. Gains(n2s, n2s', {}) /\ Gains(Work, Work', {}) /\ RowsStay /\ Ingests
    BY <1>0, <1>1, <2>2, GainsSelf, QuietRows, SameReceipts DEF NetTypes
  <2>4. \A x \in {f} : ReceiptOK(x)'
    BY <1>4, PlainFrames
  <2>5. reg' # 0 => binding'[reg'].side \in {"active", "ready"}
    BY <1>0, <1>1, <1>3 DEF InStepHere, ServerTypes
  <2> QED
    BY <1>1, <1>3, <1>5, <2>1, <2>3, <2>4, <2>5, ServerStepRest DEF RowsStay
<1>7. OnePlace' /\ OneCopy'
  <2>1. ASSUME NEW x \in Runs
        PROVE  /\ Dispatching(x)' => Dispatching(x)
               /\ x # r => (OnWire(x)' => OnWire(x))
               /\ Starting(x)' <=> Starting(x)
               /\ Rejected(x)' <=> Rejected(x)
    <3>1. x # r => StartOf(x) # f
      BY DEF StartOf, Frame
    <3> QED
      BY <1>0, <1>1, <1>3, <1>5, <3>1
      DEF Dispatching, OnWire, Starting, Rejected, RejectedOn, nodeVars, Gains, Gain
  <2>2. ~Dispatching(r)' /\ ~OnWire(r) /\ run[r] # None /\ r \notin queued /\ Dispatching(r)
    BY <1>1 DEF DispatchInv, OnePlace, OneCopy, Dispatching
  <2>3. OnePlace'
    BY <1>1, <2>1, <2>2 DEF DispatchInv, OnePlace, nodeVars
  <2>4. OneCopy'
    <3>1. ASSUME NEW x \in Runs, NEW d \in Conns PROVE Once(s2n'[d], StartOf(x))
      <4>0. Once(s2n[d], StartOf(x)) /\ StartOf(r) \notin ToSet(s2n[d])
        BY <2>2 DEF DispatchInv, OneCopy, OnWire
      <4>1. CASE s2n'[d] = s2n[d]
        BY <4>0, <4>1
      <4>2. CASE s2n'[d] = Append(s2n[d], f)
        BY <1>0, <1>4, <4>0, <4>2, AppendElems DEF NetTypes
      <4> QED
        BY <1>0, <1>1, <4>1, <4>2 DEF NetTypes
    <3>2. ASSUME NEW x \in Runs, NEW d \in Conns, NEW e \in Conns,
                 StartOf(x) \in ToSet(s2n'[d]), StartOf(x) \in ToSet(s2n'[e])
          PROVE  d = e
      <4>1. CASE x = r
        BY <1>0, <1>1, <2>2, <3>2, <4>1 DEF NetTypes, OnWire
      <4>2. CASE x # r
        <5>1. StartOf(x) # f
          BY <4>2 DEF StartOf, Frame
        <5> QED
          BY <1>5, <3>2, <5>1 DEF DispatchInv, OneCopy, Gains, Gain
      <4> QED
        BY <4>1, <4>2
    <3> QED
      BY <1>1, <1>3, <3>1, <3>2 DEF DispatchInv, OneCopy, RejectedOn, nodeVars
  <2> QED
    BY <2>3, <2>4
<1> QED
  BY <1>6, <1>7 DEF DispatchInv

-------------------------------------------------------------------------------
(* Steps of the daemon *)

\* A step of the daemon that neither takes a start up nor ends one.
LEMMA NodeStepKeeps ==
  ASSUME DispatchInv, NEW G, UNCHANGED <<storeVars, serverVars>>,
         NodeTypes', NetTypes', spawned' = spawned,
         Gains(s2n, s2n', {}), Gains(n2s, n2s', G),
         \A g \in G : EventOK(g) /\ (g.op = "startAck" => g.status # "rejected"),
         \A c \in Conns, r \in Runs : <<c, StartOf(r)>> \in nodeTodo' <=> <<c, StartOf(r)>> \in nodeTodo,
         \A r \in Runs : Streamed(r)' /\ (nrun'[r] = "starting" <=> nrun[r] = "starting")
  PROVE  DispatchInv'
<1>1. /\ run' = run /\ receipts' = receipts /\ Work' = Work /\ Work \in [Conns -> Seq(Frames)]
      /\ UNCHANGED <<binding, reg, queued, startOps>>
  BY BindingTypes DEF storeVars, runVars, serverVars, Work, DispatchInv
<1>2. Types'
  BY <1>1 DEF DispatchInv, Types, RowTypes, ServerTypes, serverVars
<1>3. Gains(Work, Work', {})
  BY <1>1, GainsSelf
<1>4. OnePlace' /\ OneCopy'
  BY <1>1, <1>3, NoNewStart DEF RejectOf, Frame, DispatchInv
<1>5. EventsUp' /\ ReceiptsDown'
  BY <1>1, <1>3, FramesStayTrue DEF EventOK, StartAccepted, DispatchInv
<1>6. InStepHere'
  BY <1>1 DEF Starting, DispatchInv, InStepHere
<1> QED
  BY <1>2, <1>4, <1>5, <1>6 DEF DispatchInv, EventsFollow

LEMMA StartsDiffer ==
  ASSUME NEW x \in Runs, NEW y \in Runs
  PROVE  /\ StartOf(x).op = "start" /\ (x # y => StartOf(x) # StartOf(y))
         /\ RejectOf(x).op = "startAck" /\ (x # y => RejectOf(x) # RejectOf(y))
BY DEF StartOf, Frame, RejectOf

\* What the daemon holds of the other runs.
LEMMA StreamedStays ==
  ASSUME NEW r \in Runs, Streamed(r), receipts' = receipts, alive' \subseteq alive,
         spawned' = spawned, nrun'[r] = nrun[r], pend'[r] = pend[r]
  PROVE  Streamed(r)'
  BY DEF Streamed, StartAccepted

LEMMA NodeTodoFrames ==
  ASSUME NodeTypes, NEW h \in nodeTodo
  PROVE  h = <<h[1], h[2]>> /\ h[1] \in Conns /\ h[2] \in Frames /\ h[2].run \in Runs /\ h[2].n \in Nat
<1>1. h \in Conns \X Frames
  BY DEF NodeTypes
<1>2. h = <<h[1], h[2]>> /\ h[1] \in Conns /\ h[2] \in Frames
  BY <1>1
<1> QED
  BY <1>2 DEF Frames

\* Nothing of the protocol but the end of a process, or of a socket.
LEMMA EndSteps ==
  ASSUME DispatchInv,
         \/ \E r \in Runs, body \in {"completed", "failed"} : ProcessExit(r, body)
         \/ \E c \in Conns : NodeDrop(c)
  PROVE  DispatchInv'
<1>0. Types /\ RowTypes /\ ServerTypes /\ NodeTypes /\ NetTypes /\ InStepHere
  BY DEF DispatchInv, Types
<1>1. \A r \in Runs : Streamed(r)
  BY DEF DispatchInv, EventsFollow
<1>2. ASSUME NEW r \in Runs, NEW body \in {"completed", "failed"}, ProcessExit(r, body)
      PROVE  DispatchInv'
  <2>1. NodeTypes' /\ NetTypes'
    BY <1>0, <1>2 DEF ProcessExit, NodeTypes, NetTypes, netVars
  <2>2. Gains(s2n, s2n', {}) /\ Gains(n2s, n2s', {})
    BY <1>0, <1>2, GainsSelf DEF ProcessExit, NetTypes, netVars
  <2>3. \A x \in Runs : Streamed(x)' /\ (nrun'[x] = "starting" <=> nrun[x] = "starting")
    BY <1>1, <1>2, StreamedStays DEF ProcessExit, storeVars, runVars
  <2> QED
    BY <1>2, <2>1, <2>2, <2>3, NodeStepKeeps DEF ProcessExit
<1>3. ASSUME NEW c \in Conns, NodeDrop(c) PROVE DispatchInv'
  <2>1. s2n' \in [Conns -> Seq(Frames)] /\ Gains(s2n, s2n', {}) /\ Gains(n2s, n2s', {})
    BY <1>0, <1>3, GainsTake, GainsSelf DEF NodeDrop, NetTypes
  <2>2. NodeTypes' /\ NetTypes'
    BY <1>0, <1>3, <2>1 DEF NodeDrop, NodeTypes, NetTypes
  <2>3. \A x \in Runs : Streamed(x)' /\ (nrun'[x] = "starting" <=> nrun[x] = "starting")
    BY <1>1, <1>3, StreamedStays DEF NodeDrop, storeVars, runVars
  <2> QED
    <3>1. UNCHANGED <<storeVars, serverVars>> /\ spawned' = spawned /\ nodeTodo' = nodeTodo
      BY <1>3 DEF NodeDrop
    <3> QED
      BY <2>1, <2>2, <2>3, <3>1, NodeStepKeeps
<1> QED
  BY <1>2, <1>3

\* run.stop and run.resume are answered from the table of runs.
LEMMA AnswerSteps ==
  ASSUME DispatchInv, NEW h \in nodeTodo, OnRunStop(h[1], h[2]) \/ OnRunResume(h[1], h[2])
  PROVE  DispatchInv'
<1>0. /\ Types /\ RowTypes /\ ServerTypes /\ NodeTypes /\ NetTypes /\ InStepHere
      /\ \A r \in Runs : Streamed(r)
  BY DEF DispatchInv, Types, EventsFollow
<1> DEFINE c == h[1]
           f == h[2]
           r == f.run
<1>1. /\ h = <<c, f>> /\ c \in Conns /\ f \in Frames /\ r \in Runs /\ f.n \in Nat
      /\ f.op # "start" /\ nrun[r] # "starting" /\ nodeTodo' = nodeTodo \ {h}
  BY <1>0, NodeTodoFrames DEF OnRunStop, OnRunResume
<1>2. \E g \in Frames : /\ g.op \in {"stopAck", "resumeAck"} /\ n2s' = Answer(c, g)
  <2>1. \A v \in {"accepted", "rejected"} : /\ Frame("stopAck", r, f.n, v) \in Frames
                                            /\ Frame("stopAck", r, f.n, v).op = "stopAck"
    BY <1>1, FrameKinds DEF Frame
  <2>2. \A v \in {"accepted", "process_exited"} : /\ Frame("resumeAck", r, 0, v) \in Frames
                                                  /\ Frame("resumeAck", r, 0, v).op = "resumeAck"
    BY <1>1, FrameKinds DEF Frame
  <2>3. CASE OnRunStop(c, f)
    BY <2>1, <2>3 DEF OnRunStop
  <2>4. CASE OnRunResume(c, f)
    <3>1. PICK v \in {"accepted", "process_exited"} : n2s' = Answer(c, Frame("resumeAck", r, 0, v))
      BY <2>4 DEF OnRunResume
    <3> QED
      BY <2>2, <3>1
  <2> QED
    BY <2>3, <2>4
<1>3. PICK g \in Frames : g.op \in {"stopAck", "resumeAck"} /\ n2s' = Answer(c, g)
  BY <1>2
<1>4. n2s' \in [Conns -> Seq(Frames)] /\ Gains(n2s, n2s', {g}) /\ Gains(s2n, s2n', {})
  BY <1>0, <1>3, AnswerGains, GainsSelf DEF NodeTypes, NetTypes, OnRunStop, OnRunResume
<1>5. /\ UNCHANGED <<storeVars, serverVars, cur, spawned, pend, s2n, stopNo>>
      /\ alive' \subseteq alive /\ receipts' = receipts
      /\ nrun' = nrun \/ (nrun[r] # "live" /\ nrun' = [nrun EXCEPT ![r] = "finished"])
      /\ exit' = exit \/ exit' = [exit EXCEPT ![r] = "cancelled"]
  BY <1>0 DEF OnRunStop, OnRunResume, Kill, storeVars, runVars, NodeTypes
<1>6. NodeTypes' /\ NetTypes'
  BY <1>0, <1>1, <1>4, <1>5 DEF NodeTypes, NetTypes
<1>7. ASSUME NEW x \in Runs
      PROVE  Streamed(x)' /\ (nrun'[x] = "starting" <=> nrun[x] = "starting")
  BY <1>0, <1>5, StreamedStays, <1>1 DEF NodeTypes, Streamed, StartAccepted
<1>8. \A d \in Conns, x \in Runs : <<d, StartOf(x)>> \in nodeTodo' <=> <<d, StartOf(x)>> \in nodeTodo
  <2>1. ASSUME NEW x \in Runs PROVE StartOf(x) # f
    <3>1. StartOf(x).op = "start"
      BY DEF StartOf, Frame
    <3> QED
      BY <1>1, <3>1
  <2>2. ASSUME NEW d \in Conns, NEW x \in Runs PROVE <<d, StartOf(x)>> # h
    BY <2>1
  <2> QED
    BY <1>1, <2>2
<1> QED
  BY <1>3, <1>4, <1>5, <1>6, <1>7, <1>8, NodeStepKeeps DEF EventOK

\* An event of r goes out over the open socket.
LEMMA EventGoesOut ==
  ASSUME DispatchInv, NEW r \in Runs, NEW e, e.seq \in 0..2, e.body \in Phases,
         nrun[r] = "live", e.seq = 0 <=> e.body = "started",
         e.body \in {"completed", "cancelled"} => StartAccepted(r),
         n2s' = SendEvent(r, e), NEW f, f = Frame("event", r, e.seq, e.body)
  PROVE  /\ n2s' \in [Conns -> Seq(Frames)] /\ Gains(n2s, n2s', {f})
         /\ EventOK(f) /\ f.op = "event"
<1>1. NodeTypes /\ NetTypes /\ Streamed(r)
  BY DEF DispatchInv, Types, EventsFollow
<1>2. f \in Frames /\ f.op = "event" /\ f.run = r /\ f.n = e.seq /\ f.status = e.body
  BY FrameKinds DEF Frame
<1>3. EventOK(f)
  BY <1>1, <1>2 DEF EventOK, Streamed
<1> QED
  BY <1>1, <1>2, <1>3, AnswerGains DEF SendEvent, NodeTypes

LEMMA TerminalKeeps == ASSUME DispatchInv, NEW r \in Runs, SendTerminal(r) PROVE DispatchInv'
<1>0. /\ Types /\ RowTypes /\ ServerTypes /\ NodeTypes /\ NetTypes /\ InStepHere
      /\ \A x \in Runs : Streamed(x)
  BY DEF DispatchInv, Types, EventsFollow
<1> DEFINE f == Frame("event", r, 1, exit[r])
           e == Event(1, exit[r], FALSE)
<1>1. /\ exit[r] \in {"completed", "failed", "cancelled"} /\ exit[r] \in Phases
      /\ nrun[r] = "live" /\ pend[r] = NoEvent /\ StartAccepted(r)
  BY <1>0 DEF SendTerminal, NodeTypes, Streamed, Phases
<1>2. e.seq = 1 /\ e.body = exit[r] /\ e.last = FALSE
      /\ e \in [seq : 0..2, body : Phases \cup {None}, last : BOOLEAN] /\ e # NoEvent
      /\ f = Frame("event", r, e.seq, e.body)
  BY <1>1 DEF Event, NoEvent
<1>3. n2s' = SendEvent(r, e) /\ pend' = [pend EXCEPT ![r] = e]
  BY DEF SendTerminal
<1> HIDE DEF e, f
<1>4. /\ n2s' \in [Conns -> Seq(Frames)] /\ Gains(n2s, n2s', {f})
      /\ EventOK(f) /\ f.op = "event"
  <2>1. e.seq \in 0..2 /\ e.body \in Phases /\ (e.seq = 0 <=> e.body = "started")
    BY <1>1, <1>2
  <2>2. nrun[r] = "live" /\ StartAccepted(r)
    BY <1>1
  <2>3. n2s' = SendEvent(r, e) /\ f = Frame("event", r, e.seq, e.body)
    BY <1>2, <1>3
  <2> QED
    BY <2>1, <2>2, <2>3, EventGoesOut
<1>5. NodeTypes' /\ NetTypes' /\ Gains(s2n, s2n', {})
  <2>1. UNCHANGED <<cur, nrun, alive, spawned, exit, nodeTodo, s2n, stopNo>>
    BY DEF SendTerminal
  <2>2. pend' \in [Runs -> [seq : 0..2, body : Phases \cup {None}, last : BOOLEAN]]
    BY <1>0, <1>2, <1>3 DEF NodeTypes
  <2>3. NodeTypes'
    BY <1>0, <2>1, <2>2 DEF NodeTypes
  <2>4. NetTypes' /\ Gains(s2n, s2n', {})
    BY <1>0, <1>4, <2>1, GainsSelf DEF NetTypes
  <2> QED
    BY <2>3, <2>4
<1>6. ASSUME NEW x \in Runs
      PROVE  Streamed(x)' /\ (nrun'[x] = "starting" <=> nrun[x] = "starting")
  <2>0. UNCHANGED <<receipts, alive, spawned, nrun>>
    BY DEF SendTerminal, storeVars, runVars
  <2>1. CASE x # r
    BY <1>0, <1>3, <2>0, <2>1, StreamedStays DEF NodeTypes
  <2>2. CASE x = r
    BY <1>0, <1>3, <1>1, <1>2, <2>0, <2>2 DEF NodeTypes, Streamed, StartAccepted
  <2> QED
    BY <2>1, <2>2
<1>7. UNCHANGED <<storeVars, serverVars>> /\ spawned' = spawned /\ nodeTodo' = nodeTodo
  BY DEF SendTerminal
<1> QED
  BY <1>4, <1>5, <1>6, <1>7, NodeStepKeeps

\* The daemon has forgotten everything.
LEMMA NodeRestartKeeps == ASSUME DispatchInv, NodeRestart PROVE DispatchInv'
<1>0. /\ Types /\ RowTypes /\ ServerTypes /\ NodeTypes /\ NetTypes /\ InStepHere
      /\ \A x \in Runs : Streamed(x)
  BY DEF DispatchInv, Types, EventsFollow
<1>1. /\ UNCHANGED <<storeVars, serverVars, spawned, n2s, stopNo>> /\ receipts' = receipts
      /\ run' = run /\ UNCHANGED <<binding, reg, queued, startOps>>
  BY DEF NodeRestart, storeVars, runVars, serverVars
<1>2. NoEvent \in [seq : 0..2, body : Phases \cup {None}, last : BOOLEAN]
  BY DEF NoEvent
<1>3. s2n' \in [Conns -> Seq(Frames)] /\ \A c \in Conns : s2n'[c] = <<>>
  BY NoElems DEF NodeRestart
<1>4. Types'
  <2>1. RowTypes' /\ ServerTypes'
    BY <1>0, <1>1 DEF RowTypes, ServerTypes, serverVars
  <2>2. NodeTypes'
    BY <1>0, <1>1, <1>2 DEF NodeTypes, NodeRestart
  <2>3. NetTypes'
    BY <1>0, <1>1, <1>3 DEF NetTypes
  <2> QED
    BY <2>1, <2>2, <2>3 DEF Types
<1>5. /\ Work' = Work /\ Gains(Work, Work', {}) /\ Gains(n2s, n2s', {}) /\ Gains(s2n, s2n', {})
  BY <1>0, <1>1, BindingTypes, <1>3, GainKinds, GainsSelf DEF Work, Gains, NetTypes
<1>6. nodeTodo' = {} /\ \A r \in Runs : nrun'[r] = "none"
  BY DEF NodeRestart
<1>7. OnePlace' /\ OneCopy'
  BY <1>1, <1>5, <1>6, NoNewStart DEF DispatchInv
<1>8. EventsUp' /\ ReceiptsDown'
  BY <1>0, <1>1, <1>5, FramesStayTrue DEF DispatchInv, StartAccepted
<1>9. \A r \in Runs : Streamed(r)'
  BY <1>0, <1>1 DEF NodeRestart, Streamed, StartAccepted
<1>10. InStepHere'
  BY <1>0, <1>1, <1>6 DEF InStepHere, Starting
<1> QED
  BY <1>4, <1>7, <1>8, <1>9, <1>10 DEF DispatchInv, EventsFollow

\* The daemon opens a socket; what waits for a receipt goes out again.
LEMMA ConnectKeeps == ASSUME DispatchInv, NEW c \in Conns, NodeConnect(c) PROVE DispatchInv'
<1>0. /\ Types /\ RowTypes /\ ServerTypes /\ NodeTypes /\ NetTypes /\ InStepHere
      /\ \A x \in Runs : Streamed(x)
  BY DEF DispatchInv, Types, EventsFollow
<1> DEFINE T == {Frame("event", r, pend[r].seq, pend[r].body) : r \in {x \in Runs : pend[x] # NoEvent}}
           b == [binding[c] EXCEPT !.side = "open"]
<1>1. \A g \in T : g \in Frames /\ g.op = "event" /\ EventOK(g)
  <2>1. ASSUME NEW r \in Runs, pend[r] # NoEvent, NEW g, g = Frame("event", r, pend[r].seq, pend[r].body)
        PROVE  g \in Frames /\ g.op = "event" /\ EventOK(g)
    BY <1>0, <2>1, FrameKinds DEF NodeTypes, Streamed, Frame, EventOK
  <2> QED
    BY <2>1
<1>2. PendingFrames \in Seq(Frames) /\ ToSet(PendingFrames) \subseteq T
  <2>1. IsFiniteSet(T)
    <3>1. IsFiniteSet({x \in Runs : pend[x] # NoEvent})
      BY DispatchAssumption, FS_Subset DEF DispatchAssumption
    <3> DEFINE g == [r \in {x \in Runs : pend[x] # NoEvent} |-> Frame("event", r, pend[r].seq, pend[r].body)]
    <3>3. g \in Surjection({x \in Runs : pend[x] # NoEvent}, T)
      BY DEF Surjection
    <3> QED
      BY <3>1, <3>3, FS_Surjection
  <2>2. T \subseteq Frames
    BY <1>1
  <2> HIDE DEF T
  <2> QED
    BY <2>1, <2>2, SetToSeqElems DEF PendingFrames, T
<1> HIDE DEF T
<1>3. /\ binding' = [binding EXCEPT ![c] = b] /\ n2s' = [n2s EXCEPT ![c] = PendingFrames]
      /\ UNCHANGED <<storeVars, reg, grace, expiring, queued, startOps, stopDone,
                     nrun, alive, spawned, exit, pend, nodeTodo, s2n, stopNo>>
      /\ run' = run /\ receipts' = receipts /\ cur' = c /\ binding[c].side = "none"
  BY DEF NodeConnect, storeVars, runVars
<1>4. b \in Bindings /\ b.work = binding[c].work /\ b.side = "open" /\ WaitsForStop(b)
  <2>1. WaitsForStop(binding[c]) /\ binding[c] \in Bindings
    BY <1>0, BindingTypes DEF InStepHere
  <2> QED
    BY <2>1 DEF Bindings, WaitsForStop
<1> HIDE DEF b
<1>5. /\ binding' \in [Conns -> Bindings] /\ Gains(Work, Work', {})
      /\ binding'[c] = b /\ \A d \in Conns : d # c => binding'[d] = binding[d]
  BY <1>0, <1>3, <1>4, BindingStep, BindingTypes, GainKinds DEF ServerTypes
<1>6. n2s' \in [Conns -> Seq(Frames)] /\ Gains(n2s, n2s', T) /\ Gains(s2n, s2n', {})
  BY <1>0, <1>2, <1>3, GainKinds, GainsSelf DEF NetTypes, Once, ToSet, Gain, Gains
<1>7. Types'
  BY <1>0, <1>3, <1>5, <1>6 DEF Types, RowTypes, ServerTypes, NodeTypes, NetTypes
<1>8. OnePlace' /\ OneCopy'
  <2>1. \A r \in Runs : RejectOf(r) \notin T
    BY <1>1 DEF RejectOf, Frame
  <2>2. OnePlace /\ OneCopy /\ UNCHANGED <<run, queued, startOps, spawned, nodeTodo>>
    BY <1>3 DEF DispatchInv
  <2> QED
    BY <1>5, <1>6, <2>1, <2>2, NoNewStart
<1>9. EventsUp' /\ ReceiptsDown'
  <2>1. \A g \in T : EventOK(g)'
    BY <1>1, <1>3 DEF EventOK, StartAccepted
  <2>2. EventsFollow /\ UNCHANGED <<spawned, receipts>>
    BY <1>3 DEF DispatchInv
  <2>3. \A r \in Runs : StartAccepted(r) => StartAccepted(r)'
    BY <2>2 DEF StartAccepted
  <2> QED
    BY <1>0, <1>5, <1>6, <2>1, <2>2, <2>3, FramesStayTrue
<1>10. \A r \in Runs : Streamed(r)'
  BY <1>0, <1>3 DEF Streamed, StartAccepted
<1>11. InStepHere'
  BY <1>0, <1>3, <1>4, <1>5 DEF InStepHere, Starting, ServerTypes
<1> QED
  BY <1>7, <1>8, <1>9, <1>10, <1>11 DEF DispatchInv, EventsFollow

\* The receipt of the event that waits: the stream goes on, ends or fails.
LEMMA NodeReceiptKeeps ==
  ASSUME DispatchInv, NEW c \in Conns, NodeReceipt(c), NEW f, f = Head(s2n[c])
  PROVE  DispatchInv'
<1>0. /\ Types /\ RowTypes /\ ServerTypes /\ NodeTypes /\ NetTypes /\ InStepHere
      /\ \A x \in Runs : Streamed(x)
  BY DEF DispatchInv, Types, EventsFollow
<1> DEFINE r == f.run
           e == Event(pend[r].seq + 1, "failed", TRUE)
           g == Frame("event", r, e.seq, e.body)
<1>1. f \in Frames /\ r \in Runs /\ f.op = "receipt" /\ ReceiptOK(f)
  <2>1. s2n[c] # <<>> /\ s2n[c] \in Seq(Frames) /\ f.op = "receipt"
    BY <1>0 DEF NodeReceipt, NetTypes
  <2>2. f \in Frames /\ f \in ToSet(s2n[c])
    BY <2>1, TailElems
  <2> QED
    BY <2>1, <2>2 DEF Frames, DispatchInv, EventsFollow, ReceiptsDown
<1>2. /\ UNCHANGED <<storeVars, serverVars, cur, spawned, nodeTodo, stopNo>>
      /\ s2n' = [s2n EXCEPT ![c] = Tail(@)] /\ s2n[c] # <<>> /\ receipts' = receipts
  BY DEF NodeReceipt, storeVars, runVars
<1>3. s2n' \in [Conns -> Seq(Frames)] /\ Gains(s2n, s2n', {})
  BY <1>0, <1>2, GainsTake DEF NetTypes
<1>8. UNCHANGED <<storeVars, serverVars>> /\ spawned' = spawned /\ nodeTodo' = nodeTodo
  BY DEF NodeReceipt
\* What happens to r in each case.
<1>4. \/ UNCHANGED <<nrun, pend, alive, exit, n2s>>
      \/ /\ pend[r] # NoEvent /\ pend' = [pend EXCEPT ![r] = NoEvent]
         /\ UNCHANGED <<alive, exit, n2s>>
         /\ \/ nrun' = [nrun EXCEPT ![r] = "finished"]
            \/ nrun' = nrun /\ StartAccepted(r)
      \/ /\ pend[r] # NoEvent /\ ~pend[r].last /\ Kill(r) /\ nrun' = nrun
         /\ pend' = [pend EXCEPT ![r] = e] /\ n2s' = SendEvent(r, e)
  <2>1. CASE pend[r] = NoEvent \/ pend[r].seq # f.n
    BY <2>1 DEF NodeReceipt
  <2>2. CASE pend[r] # NoEvent /\ pend[r].seq = f.n /\ f.status = "accepted"
    <3>1. ReceiptAccepted(r)
      BY <2>2 DEF NodeReceipt
    <3>2. CASE pend[r].body = "started"
      <4>1. f.n = 0 /\ 0 \in Seqs
        BY <1>0, <1>1, <2>2, <3>2, DispatchAssumption DEF Streamed, DispatchAssumption
      <4>2. StartAccepted(r)
        BY <1>1, <2>2, <4>1 DEF ReceiptOK, StartAccepted
      <4> QED
        BY <1>0, <2>2, <3>1, <3>2, <4>2 DEF ReceiptAccepted, NodeTypes
    <3>3. CASE pend[r].body # "started"
      BY <2>2, <3>1, <3>3 DEF ReceiptAccepted
    <3> QED
      BY <3>2, <3>3
  <2>3. CASE pend[r] # NoEvent /\ pend[r].seq = f.n /\ f.status # "accepted"
    BY <2>3 DEF NodeReceipt, ReceiptRejected
  <2> QED
    BY <2>1, <2>2, <2>3
<1>5. CASE UNCHANGED <<nrun, pend, alive, exit, n2s>>
  <2>1. NodeTypes' /\ NetTypes' /\ Gains(n2s, n2s', {})
    BY <1>0, <1>2, <1>3, <1>5, GainsSelf DEF NodeTypes, NetTypes
  <2>2. \A x \in Runs : Streamed(x)' /\ (nrun'[x] = "starting" <=> nrun[x] = "starting")
    BY <1>0, <1>2, <1>5, StreamedStays
  <2> QED
    BY <1>3, <1>8, <2>1, <2>2, NodeStepKeeps
<1>6. CASE /\ pend[r] # NoEvent /\ pend' = [pend EXCEPT ![r] = NoEvent]
           /\ UNCHANGED <<alive, exit, n2s>>
           /\ \/ nrun' = [nrun EXCEPT ![r] = "finished"]
              \/ nrun' = nrun /\ StartAccepted(r)
  <2>0. NoEvent \in [seq : 0..2, body : Phases \cup {None}, last : BOOLEAN]
    BY DEF NoEvent
  <2>1. NodeTypes' /\ NetTypes' /\ Gains(n2s, n2s', {})
    BY <1>0, <1>1, <1>2, <1>3, <1>6, <2>0, GainsSelf DEF NodeTypes, NetTypes
  <2>2. ASSUME NEW x \in Runs
        PROVE  Streamed(x)' /\ (nrun'[x] = "starting" <=> nrun[x] = "starting")
    BY <1>0, <1>6, <1>2, StreamedStays, <1>1 DEF NodeTypes, Streamed, StartAccepted
  <2> QED
    BY <1>3, <1>8, <2>1, <2>2, NodeStepKeeps
<1>7. CASE /\ pend[r] # NoEvent /\ ~pend[r].last /\ Kill(r) /\ nrun' = nrun
           /\ pend' = [pend EXCEPT ![r] = e] /\ n2s' = SendEvent(r, e)
  <2>1. nrun[r] = "live" /\ pend[r].seq \in 0..1
    BY <1>0, <1>1, <1>7 DEF Streamed, NodeTypes
  <2>2. /\ e.seq \in 1..2 /\ e.seq \in 0..2 /\ e.seq # 0 /\ e.body = "failed" /\ e.last
        /\ e \in [seq : 0..2, body : Phases \cup {None}, last : BOOLEAN] /\ "failed" \in Phases
    BY <2>1 DEF Event, Phases
  <2> HIDE DEF e
  <2>3. /\ n2s' \in [Conns -> Seq(Frames)] /\ Gains(n2s, n2s', {g})
        /\ EventOK(g) /\ g.op = "event"
    <3> HIDE DEF g
    <3>1. e.body \in Phases /\ (e.seq = 0 <=> e.body = "started") /\ g = Frame("event", r, e.seq, e.body)
      BY <2>2 DEF g
    <3> QED
      BY <1>1, <1>7, <2>1, <2>2, <3>1, EventGoesOut
  <2> HIDE DEF g
  <2>4. NodeTypes' /\ NetTypes'
    BY <1>0, <1>1, <1>2, <1>3, <1>7, <2>2, <2>3 DEF NodeTypes, NetTypes, Kill
  <2>5. ASSUME NEW x \in Runs
        PROVE  Streamed(x)' /\ (nrun'[x] = "starting" <=> nrun[x] = "starting")
    <3>0. alive' \subseteq alive
      BY <1>7 DEF Kill
    <3>1. CASE x # r
      BY <1>0, <1>7, <3>1, <1>2, <3>0, StreamedStays DEF NodeTypes
    <3>2. CASE x = r
      <4>1. pend'[x] = e
        BY <1>0, <1>1, <1>7, <3>2 DEF NodeTypes
      <4>2. e.body \in Phases /\ e # NoEvent
        BY <2>2 DEF NoEvent
      <4> QED
        BY <1>0, <1>2, <1>7, <2>1, <2>2, <3>0, <3>2, <4>1, <4>2 DEF Streamed, StartAccepted
    <3> QED
      BY <3>1, <3>2
  <2> QED
    BY <1>3, <1>8, <2>3, <2>4, <2>5, NodeStepKeeps
<1> QED
  BY <1>4, <1>5, <1>6, <1>7

\* A frame of the server that is no new start.
LEMMA ReceiveFrame ==
  ASSUME DispatchInv, NEW c \in Conns, NodeReceive(c), NEW f, f = Head(s2n[c]),
         f.op = "start" => nrun[f.run] # "none"
  PROVE  DispatchInv'
<1>0. /\ Types /\ RowTypes /\ ServerTypes /\ NodeTypes /\ NetTypes /\ InStepHere
      /\ \A x \in Runs : Streamed(x)
  BY DEF DispatchInv, Types, EventsFollow
<1> DEFINE g == Frame("startAck", f.run, 0, "accepted")
<1>1. f \in Frames /\ f.run \in Runs
  <2>1. s2n[c] # <<>> /\ s2n[c] \in Seq(Frames)
    BY <1>0 DEF NodeReceive, NetTypes
  <2>2. f \in Frames
    BY <2>1, TailElems
  <2> QED
    BY <2>2 DEF Frames
<1>2. /\ s2n' = [s2n EXCEPT ![c] = Tail(@)] /\ s2n[c] # <<>>
      /\ UNCHANGED <<storeVars, serverVars>> /\ spawned' = spawned /\ receipts' = receipts
      /\ UNCHANGED <<cur, alive, exit, pend, stopNo>> /\ nrun' = nrun
      /\ \/ nodeTodo' = nodeTodo /\ n2s' = Answer(c, g)
         \/ nodeTodo' = nodeTodo \cup {<<c, f>>} /\ n2s' = n2s /\ f.op # "start"
  BY DEF NodeReceive, OnRunStart, storeVars, runVars
<1>3. s2n' \in [Conns -> Seq(Frames)] /\ Gains(s2n, s2n', {})
  BY <1>0, <1>2, GainsTake DEF NetTypes
<1>4. g \in Frames /\ g.op = "startAck" /\ g.status = "accepted"
  BY <1>1, FrameKinds DEF Frame
<1> HIDE DEF g
<1>5. n2s' \in [Conns -> Seq(Frames)] /\ Gains(n2s, n2s', {g})
  <2>1. Answer(c, g) \in [Conns -> Seq(Frames)] /\ Gains(n2s, Answer(c, g), {g})
    BY <1>0, <1>4, AnswerGains DEF NodeTypes
  <2>2. n2s \in [Conns -> Seq(Frames)] /\ Gains(n2s, n2s, {g})
    BY <1>0, GainsSelf DEF NetTypes
  <2> QED
    BY <1>2, <2>1, <2>2
<1>6. NodeTypes' /\ NetTypes'
  BY <1>0, <1>1, <1>2, <1>3, <1>5 DEF NodeTypes, NetTypes
<1>7. \A x \in Runs : Streamed(x)' /\ (nrun'[x] = "starting" <=> nrun[x] = "starting")
  BY <1>0, <1>2, StreamedStays
<1>8. ASSUME NEW d \in Conns, NEW x \in Runs
      PROVE  <<d, StartOf(x)>> \in nodeTodo' <=> <<d, StartOf(x)>> \in nodeTodo
  BY StartsDiffer, <1>2
<1>9. UNCHANGED <<storeVars, serverVars>> /\ spawned' = spawned
  BY <1>2
<1>10. \A x \in {g} : EventOK(x) /\ (x.op = "startAck" => x.status # "rejected")
  BY <1>4 DEF EventOK
<1>11. PICK G : G = {g}
  OBVIOUS
<1>12. /\ Gains(s2n, s2n', {}) /\ Gains(n2s, n2s', G)
       /\ \A x \in G : EventOK(x) /\ (x.op = "startAck" => x.status # "rejected")
  BY <1>3, <1>5, <1>10, <1>11
<1> QED
  BY <1>6, <1>7, <1>8, <1>9, <1>12, NodeStepKeeps

\* A new start is taken up.
LEMMA ReceiveStart ==
  ASSUME DispatchInv, NEW c \in Conns, NodeReceive(c), NEW f, f = Head(s2n[c]),
         f.op = "start", nrun[f.run] = "none", NEW r, r = f.run
  PROVE  DispatchInv'
<1>0. /\ Types /\ RowTypes /\ ServerTypes /\ NodeTypes /\ NetTypes /\ InStepHere
      /\ \A x \in Runs : Streamed(x)
  BY DEF DispatchInv, Types, EventsFollow
<1>1. /\ s2n[c] \in Seq(Frames) /\ s2n[c] # <<>> /\ f \in Frames /\ f \in ToSet(s2n[c])
      /\ Tail(s2n[c]) \in Seq(Frames) /\ ToSet(Tail(s2n[c])) \subseteq ToSet(s2n[c])
      /\ \A x : Once(s2n[c], x) => Once(Tail(s2n[c]), x) /\ (f = x => x \notin ToSet(Tail(s2n[c])))
  BY <1>0, TailElems DEF NodeReceive, NetTypes
<1>2. f = StartOf(r) /\ r \in Runs
  BY <1>1 DEF Frames, StartOf, Frame
<1>3. /\ s2n' = [s2n EXCEPT ![c] = Tail(@)] /\ nodeTodo' = nodeTodo \cup {<<c, f>>}
      /\ nrun' = [nrun EXCEPT ![r] = "starting"]
      /\ UNCHANGED <<storeVars, serverVars>> /\ spawned' = spawned /\ receipts' = receipts
      /\ run' = run /\ UNCHANGED <<cur, alive, exit, pend, stopNo, n2s, binding, queued, startOps>>
  BY DEF NodeReceive, OnRunStart, storeVars, runVars, serverVars
<1>4. s2n' \in [Conns -> Seq(Frames)] /\ Gains(s2n, s2n', {})
  BY <1>0, <1>1, <1>3, GainsTake DEF NetTypes
<1>5. Types'
  <2>1. RowTypes' /\ ServerTypes'
    BY <1>0, <1>3 DEF RowTypes, ServerTypes, serverVars
  <2>2. NodeTypes'
    BY <1>0, <1>1, <1>2, <1>3 DEF NodeTypes
  <2>3. NetTypes'
    BY <1>0, <1>3, <1>4 DEF NetTypes
  <2> QED
    BY <2>1, <2>2, <2>3 DEF Types
<1>6. OnWire(r) /\ ~Dispatching(r) /\ r \notin queued /\ run[r] # None /\ ~Starting(r) /\ spawned[r] = 0
  BY <1>0, <1>1, <1>2 DEF OnWire, DispatchInv, OnePlace, NodeTypes, InStepHere, Streamed
\* f was the only one of its kind.
<1>7. ~OnWire(r)'
  <2>1. ASSUME NEW d \in Conns, f \in ToSet(s2n'[d]) PROVE FALSE
    BY <1>0, <1>1, <1>3, <2>1, <1>2 DEF NetTypes, DispatchInv, OneCopy
  <2> QED
    BY <1>2, <2>1 DEF OnWire, StartOf
<1>8. ASSUME NEW x \in Runs
      PROVE  /\ OnWire(x)' => OnWire(x)
             /\ Dispatching(x)' <=> Dispatching(x)
             /\ x # r => (Starting(x)' <=> Starting(x))
             /\ Starting(r)'
             /\ Rejected(x)' <=> Rejected(x)
  <2>1. x # r => StartOf(x) # f
    BY <1>2, StartsDiffer
  <2> QED
    BY <1>2, <1>3, <1>4, <2>1
    DEF OnWire, Dispatching, Starting, Rejected, RejectedOn, Gains, Gain, StartOf
<1>9. OnePlace'
  BY <1>3, <1>6, <1>7, <1>8 DEF DispatchInv, OnePlace
<1>10. OneCopy'
  <2>1. ASSUME NEW x \in Runs, NEW d \in Conns PROVE Once(s2n'[d], StartOf(x))
    BY <1>4 DEF DispatchInv, OneCopy, Gains, Gain
  <2>2. ASSUME NEW x \in Runs, NEW d \in Conns, NEW e \in Conns,
               <<d, StartOf(x)>> \in nodeTodo', <<e, StartOf(x)>> \in nodeTodo'
        PROVE  d = e
    BY <1>2, <1>3, <1>6, <2>2, StartsDiffer DEF Starting, DispatchInv, OneCopy
  <2>3. ASSUME NEW x \in Runs, NEW d \in Conns, NEW e \in Conns,
               StartOf(x) \in ToSet(s2n'[d]), StartOf(x) \in ToSet(s2n'[e])
        PROVE  d = e
    BY <1>4, <2>3 DEF DispatchInv, OneCopy, Gains, Gain
  <2> QED
    BY <1>3, <2>1, <2>2, <2>3 DEF DispatchInv, OneCopy, RejectedOn, StartOf
<1>11. EventsUp' /\ ReceiptsDown'
  <2>1. Work' = Work /\ Gains(n2s, n2s', {}) /\ Gains(Work, Work', {})
    BY <1>0, <1>3, BindingTypes, GainsSelf DEF Work, NetTypes
  <2>2. \A x \in Runs : StartAccepted(x) => StartAccepted(x)'
    BY <1>3 DEF StartAccepted
  <2>3. EventsFollow /\ UNCHANGED <<spawned, receipts>>
    BY <1>3 DEF DispatchInv
  <2> QED
    BY <1>0, <1>4, <2>1, <2>2, <2>3, FramesStayTrue
<1>12. ASSUME NEW x \in Runs PROVE Streamed(x)'
  BY <1>0, <1>3, StreamedStays, <1>2 DEF NodeTypes, Streamed, StartAccepted
<1>13. InStepHere'
  BY <1>0, <1>2, <1>3, <1>8 DEF InStepHere, NodeTypes, serverVars
<1> QED
  BY <1>5, <1>9, <1>10, <1>11, <1>12, <1>13 DEF DispatchInv, EventsFollow

\* A start that failed leaves no trace but its answer.
LEMMA StartFailsKeeps == ASSUME DispatchInv, NEW r \in Runs, StartFails(r) PROVE DispatchInv'
<1>0. /\ Types /\ RowTypes /\ ServerTypes /\ NodeTypes /\ NetTypes /\ InStepHere
      /\ OnePlace /\ OneCopy /\ \A x \in Runs : Streamed(x)
  BY DEF DispatchInv, Types, EventsFollow
<1>1. PICK h \in nodeTodo :
        /\ h[2].op = "start" /\ h[2].run = r /\ nodeTodo' = nodeTodo \ {h}
        /\ nrun' = [nrun EXCEPT ![r] = "none"]
        /\ n2s' = Answer(h[1], Frame("startAck", r, 0, "rejected"))
        /\ UNCHANGED <<storeVars, serverVars, cur, alive, spawned, exit, pend, s2n, stopNo>>
  BY DEF StartFails
<1>2. PICK c \in Conns : h = <<c, StartOf(r)>> /\ h[1] = c
  BY <1>0, <1>1, NodeTodoFrames DEF Frames, StartOf, Frame
<1> DEFINE g == RejectOf(r)
<1>3. /\ n2s' \in [Conns -> Seq(Frames)] /\ Gains(n2s, n2s', {g})
      /\ n2s' = n2s \/ n2s' = [n2s EXCEPT ![c] = Append(@, g)]
      /\ g \in Frames
  BY FrameKinds, <1>1, <1>2, <1>0, AnswerGains DEF RejectOf, NodeTypes, Answer
<1>4. /\ receipts' = receipts /\ run' = run /\ UNCHANGED <<binding, reg, queued, startOps, spawned>>
      /\ Work' = Work /\ Gains(s2n, s2n', {}) /\ Gains(Work, Work', {})
  BY <1>0, BindingTypes, <1>1, GainsSelf DEF Work, storeVars, runVars, serverVars, NetTypes
<1>5. Types'
  BY <1>0, <1>1, <1>4, <1>3 DEF RowTypes, ServerTypes, serverVars, NodeTypes, NetTypes, Types
<1>6. /\ Starting(r) /\ ~Rejected(r) /\ ~OnWire(r) /\ ~Dispatching(r)
      /\ r \notin queued /\ run[r] # None /\ spawned[r] = 0 /\ ~Starting(r)'
  <2>1. Starting(r)
    BY <1>1, <1>2 DEF Starting
  <2>2. ~Starting(r)'
    BY <1>0, <1>1, <1>2 DEF Starting, OneCopy, StartOf
  <2> QED
    BY <1>0, <2>1, <2>2 DEF OnePlace, NodeTypes
<1>7. ASSUME NEW x \in Runs
      PROVE  /\ OnWire(x)' <=> OnWire(x)
             /\ Dispatching(x)' <=> Dispatching(x)
             /\ x # r => (Starting(x)' <=> Starting(x))
             /\ x # r => (Rejected(x)' => Rejected(x))
  <2>1. x # r => (StartOf(x) # StartOf(r) /\ RejectOf(x) # g)
    BY StartsDiffer
  <2>2. (OnWire(x)' <=> OnWire(x)) /\ (Dispatching(x)' <=> Dispatching(x))
    BY <1>1, <1>4 DEF OnWire, Dispatching, StartOf, Frame
  <2>3. x # r => (Starting(x)' <=> Starting(x))
    BY <1>2, <2>1, <1>1 DEF Starting, StartOf, Frame
  <2>4. ASSUME x # r, NEW d \in Conns, RejectedOn(x, d)' PROVE RejectedOn(x, d)
    BY <1>3, <1>4, <2>1, <2>4 DEF RejectedOn, Gains, Gain, RejectOf, Frame
  <2>5. x # r => (Rejected(x)' => Rejected(x))
    BY <2>4 DEF Rejected
  <2> QED
    BY <2>2, <2>3, <2>5
<1>8. OnePlace'
  BY <1>0, <1>4, <1>6, <1>7 DEF OnePlace
<1>9. OneCopy'
  <2>1. ASSUME NEW x \in Runs, NEW d \in Conns
        PROVE  /\ Once(n2s'[d], RejectOf(x))
               /\ RejectOf(x) \in ToSet(n2s'[d]) => RejectOf(x) \notin ToSet(binding[d].work)
    <3>0. /\ Once(n2s[d], RejectOf(x))
          /\ RejectOf(x) \in ToSet(n2s[d]) => RejectOf(x) \notin ToSet(binding[d].work)
          /\ g \notin ToSet(n2s[d]) /\ g \notin ToSet(binding[d].work)
      BY <1>0, <1>6 DEF OneCopy, Rejected, RejectedOn
    <3>1. CASE n2s'[d] = n2s[d]
      BY <3>0, <3>1
    <3>2. CASE n2s'[d] = Append(n2s[d], g)
      BY <1>0, <1>3, <3>2, AppendElems, <3>0 DEF NetTypes
    <3> QED
      BY <1>0, <1>3, <3>1, <3>2 DEF NetTypes
  <2>2. ASSUME NEW x \in Runs, NEW d \in Conns, NEW e \in Conns, RejectedOn(x, d)', RejectedOn(x, e)'
        PROVE  d = e
    <3>1. CASE x # r
      <4>1. RejectOf(x) # g
        BY <3>1, StartsDiffer
      <4>2. RejectedOn(x, d) /\ RejectedOn(x, e)
        BY <1>3, <1>4, <2>2, <4>1 DEF RejectedOn, Gains, Gain, RejectOf
      <4> QED
        BY <1>0, <4>2 DEF OneCopy
    <3>2. CASE x = r
      BY <1>0, <1>3, <1>4, <1>6, <2>2, <3>2 DEF NetTypes, Rejected, RejectedOn, RejectOf
    <3> QED
      BY <3>1, <3>2
  <2>3. ASSUME NEW x \in Runs, NEW d \in Conns, NEW e \in Conns,
               <<d, StartOf(x)>> \in nodeTodo', <<e, StartOf(x)>> \in nodeTodo'
        PROVE  d = e
    BY <1>0, <1>1, <2>3 DEF OneCopy
  <2> QED
    BY <1>0, <1>1, <1>4, <2>1, <2>2, <2>3 DEF OneCopy, StartOf, RejectOf
<1>10. EventsUp' /\ ReceiptsDown'
  BY StartsDiffer, PlainFrames, <1>4, <1>0, <1>3, FramesStayTrue DEF StartAccepted, DispatchInv
<1>11. ASSUME NEW x \in Runs PROVE Streamed(x)'
  BY <1>0, <1>1, <1>4, StreamedStays, <1>6 DEF NodeTypes, InStepHere, Streamed, StartAccepted
<1>12. InStepHere'
  BY <1>0, <1>1, <1>6, <1>7, <1>4 DEF InStepHere, NodeTypes
<1> QED
  BY <1>5, <1>8, <1>9, <1>10, <1>11, <1>12 DEF DispatchInv, EventsFollow

\* A process starts: its run was starting, and nowhere else.
LEMMA StartSucceedsKeeps == ASSUME DispatchInv, NEW r \in Runs, StartSucceeds(r) PROVE DispatchInv'
<1>0. /\ Types /\ RowTypes /\ ServerTypes /\ NodeTypes /\ NetTypes /\ InStepHere
      /\ OnePlace /\ OneCopy /\ \A x \in Runs : Streamed(x)
  BY DEF DispatchInv, Types, EventsFollow
<1> DEFINE started == Frame("event", r, 0, "started")
           ack == Frame("startAck", r, 0, "accepted")
           e == Event(0, "started", FALSE)
<1>1. PICK h \in nodeTodo :
        /\ h[2].op = "start" /\ h[2].run = r /\ nodeTodo' = nodeTodo \ {h}
        /\ nrun' = [nrun EXCEPT ![r] = "live"]
        /\ alive' = alive \cup {r}
        /\ spawned' = [spawned EXCEPT ![r] = @ + 1]
        /\ exit' = [exit EXCEPT ![r] = None]
        /\ pend' = [pend EXCEPT ![r] = e]
        /\ n2s' = IF ~Up(cur) THEN n2s
                  ELSE [n2s EXCEPT ![cur] = @ \o IF cur = h[1] THEN <<ack, started>> ELSE <<started>>]
        /\ UNCHANGED <<storeVars, serverVars, cur, s2n, stopNo>>
  BY DEF StartSucceeds
<1>2. PICK c \in Conns : h = <<c, StartOf(r)>> /\ h[1] = c
  BY <1>0, <1>1, NodeTodoFrames DEF Frames, StartOf, Frame
<1>3. /\ started \in Frames /\ started.op = "event" /\ started.run = r /\ started.n = 0
      /\ started.status = "started"
      /\ ack \in Frames /\ ack.op = "startAck" /\ ack.status = "accepted"
  <2>1. "started" \in Phases /\ 0 \in 0..2
    BY DEF Phases
  <2>2. started \in Frames /\ ack \in Frames
    BY <2>1, FrameKinds
  <2> QED
    BY <2>2 DEF Frame
<1>4. /\ e \in [seq : 0..2, body : Phases \cup {None}, last : BOOLEAN] /\ e # NoEvent
      /\ e.seq = 0 /\ e.body = "started" /\ e.last = FALSE /\ e.body \in Phases
  BY StoreAssumption DEF StoreAssumption, Event, NoEvent, Phases, Bodies
<1> HIDE DEF started, ack, e
<1>5. n2s' \in [Conns -> Seq(Frames)] /\ Gains(n2s, n2s', {started, ack})
  <2>1. CASE n2s' = n2s
    BY <1>0, <2>1, GainsSelf DEF NetTypes
  <2>2. CASE n2s' # n2s
    <3>1. cur \in Conns
      BY <1>0, <1>1, <2>2 DEF Up, NodeTypes
    <3> DEFINE s == n2s[cur]
               t == IF cur = c THEN Append(Append(s, ack), started) ELSE Append(s, started)
    <3>2. s \in Seq(Frames)
      BY <1>0, <3>1 DEF NetTypes
    <3>3. s \o <<started>> = Append(s, started) /\ s \o <<ack, started>> = Append(Append(s, ack), started)
      BY <1>3, <3>2, ConcatIsAppend
    <3>4. n2s' = [n2s EXCEPT ![cur] = t]
      BY <1>0, <1>1, <1>2, <2>2, <3>1, <3>3 DEF NetTypes
    <3>5. Gain(s, t, {started, ack})
      <4>1. /\ Append(s, ack) \in Seq(Frames) /\ Append(s, started) \in Seq(Frames)
            /\ ToSet(Append(s, ack)) = ToSet(s) \cup {ack}
            /\ ToSet(Append(s, started)) = ToSet(s) \cup {started}
            /\ \A f : f \notin {started, ack} /\ Once(s, f) => Once(Append(s, ack), f) /\ Once(Append(s, started), f)
        BY <1>3, <3>2, AppendElems
      <4>2. /\ Append(Append(s, ack), started) \in Seq(Frames)
            /\ ToSet(Append(Append(s, ack), started)) = ToSet(Append(s, ack)) \cup {started}
            /\ \A f : f # started /\ Once(Append(s, ack), f) => Once(Append(Append(s, ack), started), f)
        <5>1. Append(s, ack) \in Seq(Frames)
          BY <4>1
        <5>2. ASSUME NEW u \in Seq(Frames)
              PROVE  /\ Append(u, started) \in Seq(Frames)
                     /\ ToSet(Append(u, started)) = ToSet(u) \cup {started}
                     /\ \A f : f # started /\ Once(u, f) => Once(Append(u, started), f)
          BY <1>3, AppendElems
        <5> QED
          BY <5>1, <5>2
      <4> QED
        BY <4>1, <4>2 DEF Gain
    <3> HIDE DEF t
    <3>6. \A d \in Conns : n2s'[d] = IF d = cur THEN t ELSE n2s[d]
      BY <1>0, <3>1, <3>4 DEF NetTypes
    <3>7. \A d \in Conns : Gain(n2s[d], n2s[d], {started, ack})
      BY <1>0, GainsSelf DEF Gains, NetTypes
    <3>8. t \in Seq(Frames)
      BY <3>5 DEF Gain
    <3> QED
      BY <1>0, <3>4, <3>8, <3>5, <3>6, <3>7 DEF NetTypes, Gains
  <2> QED
    BY <2>1, <2>2
<1>6. /\ receipts' = receipts /\ run' = run /\ UNCHANGED <<binding, reg, queued, startOps>>
      /\ Work' = Work /\ Gains(s2n, s2n', {}) /\ Gains(Work, Work', {})
  BY <1>0, BindingTypes, <1>1, GainsSelf DEF Work, storeVars, runVars, serverVars, NetTypes
<1>7. Types'
  <2>1. RowTypes' /\ ServerTypes'
    BY <1>0, <1>1, <1>6 DEF RowTypes, ServerTypes, serverVars
  <2>2. NodeTypes'
    BY <1>0, <1>1, <1>4 DEF NodeTypes
  <2>3. NetTypes'
    BY <1>0, <1>1, <1>5 DEF NetTypes
  <2> QED
    BY <2>1, <2>2, <2>3 DEF Types
<1>8. /\ Starting(r) /\ ~Rejected(r) /\ ~OnWire(r) /\ ~Dispatching(r)
      /\ r \notin queued /\ run[r] # None /\ spawned[r] = 0 /\ ~Starting(r)'
  <2>1. Starting(r)
    BY <1>1, <1>2 DEF Starting
  <2>2. ~Starting(r)'
    BY <1>0, <1>1, <1>2 DEF Starting, OneCopy, StartOf
  <2> QED
    BY <1>0, <2>1, <2>2 DEF OnePlace, NodeTypes
<1>9. ASSUME NEW x \in Runs
      PROVE  /\ OnWire(x)' <=> OnWire(x)
             /\ Dispatching(x)' <=> Dispatching(x)
             /\ x # r => (Starting(x)' <=> Starting(x))
             /\ \A d \in Conns : RejectedOn(x, d)' => RejectedOn(x, d)
             /\ Rejected(x)' => Rejected(x)
  <2>1. x # r => StartOf(x) # StartOf(r)
    BY StartsDiffer
  <2>2. (OnWire(x)' <=> OnWire(x)) /\ (Dispatching(x)' <=> Dispatching(x))
    BY <1>1, <1>6 DEF OnWire, Dispatching, StartOf, Frame
  <2>3. x # r => (Starting(x)' <=> Starting(x))
    BY <1>2, <2>1, <1>1 DEF Starting, StartOf, Frame
  <2>4. RejectOf(x) \notin {started, ack}
    BY <1>3 DEF RejectOf, Frame
  <2>5. ASSUME NEW d \in Conns, RejectedOn(x, d)' PROVE RejectedOn(x, d)
    BY <1>5, <1>6, <2>4, <2>5 DEF RejectedOn, Gains, Gain, RejectOf, Frame
  <2>6. Rejected(x)' => Rejected(x)
    BY <2>5 DEF Rejected
  <2> QED
    BY <2>2, <2>3, <2>5, <2>6
<1>10. OnePlace'
  BY <1>0, <1>1, <1>8, <1>9, <1>6 DEF NodeTypes, OnePlace
<1>11. OneCopy'
  <2>1. ASSUME NEW x \in Runs, NEW d \in Conns
        PROVE  /\ Once(n2s'[d], RejectOf(x))
               /\ RejectOf(x) \in ToSet(n2s'[d]) => RejectOf(x) \notin ToSet(binding[d].work)
    BY <1>3, <1>0, <1>5 DEF RejectOf, Frame, OneCopy, Gains, Gain
  <2>2. ASSUME NEW x \in Runs, NEW d \in Conns, NEW k \in Conns, RejectedOn(x, d)', RejectedOn(x, k)'
        PROVE  d = k
    BY <1>0, <1>9, <2>2 DEF OneCopy
  <2>3. ASSUME NEW x \in Runs, NEW d \in Conns, NEW k \in Conns,
               <<d, StartOf(x)>> \in nodeTodo', <<k, StartOf(x)>> \in nodeTodo'
        PROVE  d = k
    BY <1>0, <1>1, <2>3 DEF OneCopy
  <2> QED
    BY <1>0, <1>1, <1>6, <2>1, <2>2, <2>3 DEF OneCopy, StartOf, RejectOf
<1>12. EventsUp' /\ ReceiptsDown'
  <2>1. \A x \in Runs : spawned[x] # 0 => spawned'[x] # 0
    BY <1>0, <1>1, <1>8 DEF NodeTypes
  <2>2. \A y \in {started, ack} : EventOK(y)'
    BY <1>0, <1>1, <1>3, <1>8 DEF EventOK, NodeTypes
  <2>3. EventsFollow /\ \A x \in Runs : StartAccepted(x) => StartAccepted(x)'
    BY <1>6 DEF StartAccepted, DispatchInv
  <2> QED
    BY <1>0, <1>5, <1>6, <2>1, <2>2, <2>3, FramesStayTrue
<1>13. ASSUME NEW x \in Runs PROVE Streamed(x)'
  BY <1>0, <1>1, <1>6, <1>8, <1>4 DEF NodeTypes, Streamed, StartAccepted
<1>14. InStepHere'
  BY <1>0, <1>1, <1>8, <1>9, <1>6 DEF InStepHere, NodeTypes
<1> QED
  BY <1>7, <1>10, <1>11, <1>12, <1>13, <1>14 DEF DispatchInv, EventsFollow

-------------------------------------------------------------------------------
(* The invariant *)

LEMMA DispatchInvInit == DispatchInit => DispatchInv
<1> SUFFICES ASSUME DispatchInit PROVE DispatchInv
  OBVIOUS
<1>1. /\ run = [r \in Runs |-> None] /\ receipts = [r \in Runs |-> [q \in Seqs |-> None]]
      /\ binding = [c \in Conns |-> NewBinding]
      /\ reg = 0 /\ grace = {} /\ expiring = {} /\ queued = {} /\ startOps = {} /\ stopDone = {}
      /\ cur = 0 /\ nodeTodo = {} /\ alive = {}
      /\ nrun = [r \in Runs |-> "none"] /\ spawned = [r \in Runs |-> 0]
      /\ exit = [r \in Runs |-> None] /\ pend = [r \in Runs |-> NoEvent]
      /\ s2n = [c \in Conns |-> <<>>] /\ n2s = [c \in Conns |-> <<>>]
      /\ stopNo = [r \in Runs |-> 0]
  BY DEF DispatchInit, Init
<1>2. NewBinding \in Bindings /\ NewBinding.work = <<>> /\ WaitsForStop(NewBinding)
  BY NewBindingKinds
<1>3. <<>> \in Seq(Frames) /\ ToSet(<<>>) = {} /\ \A f : Once(<<>>, f)
  BY NoElems
<1>4. NoEvent \in [seq : 0..2, body : Phases \cup {None}, last : BOOLEAN]
  BY DEF NoEvent
<1>5. 0 \in Seqs
  BY DispatchAssumption DEF DispatchAssumption
<1>6. Types
  <2>1. RowTypes
    BY <1>1 DEF RowTypes
  <2>2. ServerTypes
    BY <1>1, <1>2 DEF ServerTypes
  <2>3. NodeTypes
    BY <1>1, <1>4 DEF NodeTypes
  <2>4. NetTypes
    BY <1>1, <1>3 DEF NetTypes
  <2> QED
    BY <2>1, <2>2, <2>3, <2>4 DEF Types
<1>7. \A c \in Conns : binding[c] = NewBinding /\ s2n[c] = <<>> /\ n2s[c] = <<>>
  BY <1>1
<1>8. ASSUME NEW r \in Runs
      PROVE  /\ spawned[r] = 0 /\ ~Dispatching(r) /\ ~OnWire(r) /\ ~Starting(r) /\ ~Rejected(r)
             /\ r \notin queued
  BY <1>2, <1>3, <1>7, <1>1 DEF RejectedOn, Dispatching, OnWire, Starting, Rejected
<1>9. OnePlace
  BY <1>8 DEF OnePlace
<1>10. OneCopy
  BY <1>8, <1>2, <1>3, <1>7 DEF Dispatching, OnWire, Starting, Rejected, OneCopy
<1>11. EventsFollow
  BY <1>2, <1>3, <1>7, <1>1, <1>5 DEF EventsUp, ReceiptsDown, Streamed, EventsFollow
<1>12. InStepHere
  BY <1>1, <1>2, <1>7, <1>8 DEF InStepHere
<1> QED
  BY <1>6, <1>9, <1>10, <1>11, <1>12 DEF DispatchInv

\* No step breaks the invariant.
LEMMA DispatchInvStep == DispatchInv /\ [DispatchNext]_dispatchVars => DispatchInv'
<1> SUFFICES ASSUME DispatchInv, [DispatchNext]_dispatchVars PROVE DispatchInv'
  OBVIOUS
<1>1. CASE UNCHANGED dispatchVars
  <2>1. UNCHANGED <<storeVars, grace, expiring, stopDone, binding, reg, queued, startOps, nodeVars, netVars>>
    BY <1>1 DEF dispatchVars, serverVars
  <2>2. RowTypes /\ grace \subseteq Runs /\ expiring \subseteq Runs /\ stopDone \subseteq Runs \X Intents
    BY DEF DispatchInv, Types, ServerTypes
  <2> QED
    BY <2>1, <2>2, QuietRows, StoreStepKeeps
<1>2. CASE UserStep \/ GraceExpire
  BY <1>2, StoreOnlySteps
<1>3. ASSUME NEW t \in Tasks, NEW r \in Runs, Assign(t, r) PROVE DispatchInv'
  BY <1>3, AssignKeeps
<1>4. ASSUME NEW r \in Runs, CancelRun(r) PROVE DispatchInv'
  BY <1>4, StopSteps DEF CancelRun, DispatchInv, Types, ServerTypes
<1>5. ASSUME NEW r \in Runs, RunStep(r) PROVE DispatchInv'
  BY OnRunQueuedKeeps, StoreOnlySteps, <1>5 DEF RunStep, Intents
<1>6. ASSUME NEW r \in Runs, NodeHandler(r) PROVE DispatchInv'
  BY <1>6, StartFailsKeeps, StartSucceedsKeeps, TerminalKeeps, AnswerSteps DEF NodeHandler
<1>7. ASSUME NEW r \in Runs, ProcessEnds(r) PROVE DispatchInv'
  BY <1>7, EndSteps DEF ProcessEnds
<1>8. ASSUME NEW c \in Conns, ServerStep(c) PROVE DispatchInv'
  <2>1. CASE Activate(c) \/ ResumeList(c) \/ ServerClose(c)
    BY <2>1, ListSteps
  <2>2. CASE Receive(c)
    BY <2>2, ReceiveKeeps
  <2>3. CASE WorkEvent(c)
    BY <2>3, WorkEventKeeps
  <2>4. CASE WorkStartRejected(c) \/ WorkStopAck(c) \/ WorkResumeRejected(c) \/ WorkResumeTimeout(c)
    BY <2>4, WorkSteps
  <2>5. ASSUME NEW r \in Runs, SendRunStart(r, c) PROVE DispatchInv'
    BY <2>5, SendRunStartKeeps
  <2>6. ASSUME NEW r \in Runs, SendRunResume(c, r) PROVE DispatchInv'
    BY <2>6, ResumeSteps
  <2>7. ASSUME NEW r \in Runs, ReconcileSurvivingProcess(c, r) PROVE DispatchInv'
    BY <2>7, StopSteps
  <2> QED
    BY <1>8, <2>1, <2>2, <2>3, <2>4, <2>5, <2>6, <2>7 DEF ServerStep
<1>9. ASSUME NEW c \in Conns, NodeConnect(c) \/ NodeDrop(c) PROVE DispatchInv'
  BY <1>9, ConnectKeeps, EndSteps
<1>10. ASSUME NEW c \in Conns, NodeFrame(c) PROVE DispatchInv'
  <2>1. CASE NodeReceipt(c)
    BY <2>1, NodeReceiptKeeps
  <2>2. CASE NodeReceive(c)
    <3>1. CASE Head(s2n[c]).op = "start" => nrun[Head(s2n[c]).run] # "none"
      BY <2>2, <3>1, ReceiveFrame
    <3>2. CASE Head(s2n[c]).op = "start" /\ nrun[Head(s2n[c]).run] = "none"
      <4>1. Head(s2n[c]).run \in Runs
        <5>1. s2n[c] # <<>> /\ s2n[c] \in Seq(Frames)
          BY <2>2 DEF NodeReceive, DispatchInv, Types, NetTypes
        <5>2. Head(s2n[c]) \in Frames
          BY <5>1, TailElems
        <5> QED
          BY <5>2 DEF Frames
      <4> QED
        BY <2>2, <3>2, <4>1, ReceiveStart
    <3> QED
      BY <3>1, <3>2
  <2> QED
    BY <1>10, <2>1, <2>2 DEF NodeFrame
<1>11. ASSUME NEW c \in Conns, NEW r \in Runs, StopTimeout(c, r) \/ ResumeTimeout(c, r)
       PROVE  DispatchInv'
  BY <1>11, ListSteps, ResumeSteps
<1>12. CASE ServerRestart \/ NodeRestart
  BY <1>12, RestartKeeps, NodeRestartKeeps
<1> QED
  BY <1>1, <1>2, <1>3, <1>4, <1>5, <1>6, <1>7, <1>8, <1>9, <1>10, <1>11, <1>12 DEF DispatchNext

LEMMA DispatchInvHolds == DispatchSpec => []DispatchInv
  BY DispatchInvInit, DispatchInvStep, PTL DEF DispatchSpec

\* Two sides, their connections and the frames between them stay well formed
\* (node-binding.ts, node-client.ts).
THEOREM DispatchTypeCorrect == DispatchSpec => []DispatchTypeOK
<1>1. DispatchInv => DispatchTypeOK
  <2> SUFFICES ASSUME DispatchInv PROVE DispatchTypeOK
    OBVIOUS
  <2>0. Types /\ ServerTypes /\ NodeTypes /\ InStepHere
    BY DEF DispatchInv, Types
  <2>1. ASSUME NEW c \in Conns
        PROVE  /\ binding[c].side \in {"none", "open", "active", "ready", "closed"}
               /\ binding[c].snap \cup binding[c].todo \cup binding[c].start
                    \cup binding[c].resume \cup binding[c].reconcile \subseteq Runs
               /\ binding[c].stop \in [Runs -> {"idle", "sent", "acked"}]
               /\ \A w \in binding[c].wait : binding[c].stop[w[1]] # "idle"
    BY <2>0, BindingTypes DEF InStepHere, Bindings, WaitsForStop
  <2>2. ASSUME NEW r \in Runs
        PROVE  Starting(r) <=> \E h \in nodeTodo : h[2].op = "start" /\ h[2].run = r
    <3>1. ASSUME NEW h \in nodeTodo, h[2].op = "start", h[2].run = r PROVE Starting(r)
      <4>1. h = <<h[1], h[2]>> /\ h[1] \in Conns /\ h[2] \in Frames
        BY <2>0, NodeTodoFrames
      <4>2. h[2] = StartOf(r)
        BY <3>1, <4>1 DEF Frames, StartOf, Frame
      <4> QED
        BY <4>1, <4>2 DEF Starting
    <3>2. ASSUME NEW c \in Conns, <<c, StartOf(r)>> \in nodeTodo
          PROVE  \E h \in nodeTodo : h[2].op = "start" /\ h[2].run = r
      BY <3>2 DEF StartOf, Frame
    <3> QED
      BY <3>1, <3>2 DEF Starting
  <2>3. \A r \in Runs : pend[r] # NoEvent => nrun[r] = "live"
    BY DEF DispatchInv, EventsFollow, Streamed
  <2> QED
    BY <2>0, <2>1, <2>2, <2>3 DEF DispatchTypeOK, ServerTypes, NodeTypes, InStepHere, Intents
<1> QED
  BY DispatchInvHolds, <1>1, PTL

\* A run has one process in its life: "retries never spawn another writer"
\* (node-client.ts, onRunStart), whatever is lost, repeated or restarted.
THEOREM OneProcess == DispatchSpec => []SpawnedOnce
<1>1. DispatchInv => SpawnedOnce
  BY DEF DispatchInv, OnePlace, SpawnedOnce
<1> QED
  BY DispatchInvHolds, <1>1, PTL

-------------------------------------------------------------------------------
(* One connection at a time *)

Closed(c) == binding[c].side = "closed"

\* The start of r was sent on c, or is about to be, or its rejection comes from there.
StartFrom(r, c) ==
  <<r, c>> \in startOps \/ StartOf(r) \in ToSet(s2n[c]) \/ <<c, StartOf(r)>> \in nodeTodo
    \/ RejectedOn(r, c)

\* The bindings of before are closed and have done their work; a start lives on
\* the present one only.
InOrder ==
  /\ \A c, d \in Conns : c < d /\ binding[d].side # "none" => Closed(c)
  /\ \A c \in Conns :
       /\ binding[c].side \in {"active", "ready"} => reg = c
       /\ Closed(c) => binding[c].resume = {} /\ (binding[c].work # <<>> => reg = 0)
       /\ n2s[c] # <<>> => binding[c].side \in {"open", "active", "ready"}
       /\ cur = c => binding[c].side # "none"
       /\ \A f \in ToSet(binding[c].work) : f.op = "startAck" => f.status = "rejected"
       /\ \A r \in Runs : StartFrom(r, c) => Closed(c) \/ reg = c

-------------------------------------------------------------------------------
(* A start is answered before anything is asked *)

\* No run.start has been refused, lost or overtaken by a close.
Fresh(r) ==
  run[r] = None \/ r \in queued \/ \E c \in Conns : ~Closed(c) /\ StartFrom(r, c)

\* The rejection waits in the queue of a binding.
Refused(r) == \E c \in Conns : RejectOf(r) \in ToSet(binding[c].work)

\* The server has asked the daemon for r again, or may on this binding.
AskedOf(b, r) ==
  \/ r \in b.snap \/ r \in b.todo \/ r \in b.resume \/ r \in b.reconcile
  \/ <<r, "reconcile">> \in b.wait
  \/ \E f \in ToSet(b.work) : f.op \in {"resumeAck", "resumeTimeout"} /\ f.run = r

\* Or it was told that the process of r has gone.
Asked(r) ==
  \/ \E c \in Conns : AskedOf(binding[c], r)
  \/ <<r, "reconcile">> \in stopDone \/ r \in confirmed

Unasked(r) ==
  /\ Fresh(r) \/ Refused(r) => ~Asked(r)
  /\ Fresh(r) => r \notin grace /\ r \notin expiring /\ run[r] # "failed"
  /\ Refused(r) /\ run[r] = "failed" => reason[r] = "daemon_disconnect"

RejectInv == InOrder /\ \A r \in Runs : Unasked(r)

-------------------------------------------------------------------------------
(* Steps that open no connection *)

StartStays(r) ==
  /\ run'[r] = None => run[r] = None
  /\ r \in queued' => r \in queued \/ run[r] = None
  /\ \A c \in Conns :
       /\ StartFrom(r, c)' => StartFrom(r, c) \/ (r \in queued /\ reg = c)
       /\ RejectOf(r) \in ToSet(binding'[c].work) =>
            RejectOf(r) \in ToSet(binding[c].work) \/ (~Closed(c) /\ StartFrom(r, c))

OnlyRejects(before, after) ==
  \A f \in ToSet(after) : f.op = "startAck" => f \in ToSet(before) \/ f.status = "rejected"

Calm ==
  /\ reg' = reg /\ cur' \in {0, cur}
  /\ \A c \in Conns :
       /\ \/ binding'[c].side = binding[c].side
          \/ binding'[c].side = "ready" /\ binding[c].side = "active"
       /\ Closed(c) => /\ binding'[c].work # <<>> => binding[c].work # <<>>
                       /\ binding'[c].resume \subseteq binding[c].resume
       /\ n2s'[c] # <<>> => n2s[c] # <<>> \/ Up(c)
       /\ OnlyRejects(binding[c].work, binding'[c].work)
  /\ \A r \in Runs : StartStays(r)

\* What is known of r does not change.
Quiet(r) ==
  /\ Asked(r)' => Asked(r)
  /\ r \in grace' \cup expiring' => r \in grace \cup expiring
  /\ run'[r] = "failed" => run[r] = "failed" /\ reason'[r] = reason[r]

LEMMA CalmStep ==
  ASSUME DispatchInv, InOrder, Calm
  PROVE  /\ InOrder'
         /\ \A r \in Runs : /\ Fresh(r)' => Fresh(r)
                            /\ Refused(r)' => Refused(r) \/ Fresh(r)
<1>0. /\ \A c \in Conns : binding[c].side \in {"none", "open", "active", "ready", "closed"}
      /\ reg # 0 => reg \in Conns /\ binding[reg].side \in {"active", "ready"}
      /\ 0 \notin Conns
  BY BindingTypes, DispatchAssumption
  DEF DispatchInv, Types, ServerTypes, InStepHere, Conns, DispatchAssumption, Bindings
<1>1. \A c \in Conns : Closed(c)' <=> Closed(c)
  BY DEF Closed, Calm
<1>2. ASSUME NEW c \in Conns
      PROVE  /\ binding'[c].side \in {"active", "ready"} => reg' = c
             /\ Closed(c)' => /\ binding'[c].resume = {}
                              /\ binding'[c].work # <<>> => reg' = 0
             /\ n2s'[c] # <<>> => binding'[c].side \in {"open", "active", "ready"}
             /\ cur' = c => binding'[c].side # "none"
             /\ \A f \in ToSet(binding'[c].work) : f.op = "startAck" => f.status = "rejected"
  BY <1>0, <1>1 DEF InOrder, Calm, OnlyRejects, Up, Closed
<1>3. ASSUME NEW r \in Runs, NEW c \in Conns, StartFrom(r, c)' PROVE Closed(c)' \/ reg' = c
  BY <1>1, <1>3 DEF InOrder, Calm, StartStays
<1>4. InOrder'
  BY <1>1, <1>2, <1>3 DEF InOrder, Calm
<1>5. ASSUME NEW r \in Runs PROVE Fresh(r)' => Fresh(r)
  BY <1>1 DEF Fresh, Calm, StartStays
<1>6. ASSUME NEW r \in Runs PROVE Refused(r)' => Refused(r) \/ Fresh(r)
  BY DEF Refused, Fresh, Calm, StartStays
<1> QED
  BY <1>4, <1>5, <1>6

LEMMA QuietRun ==
  ASSUME NEW r \in Runs, Unasked(r), Quiet(r),
         Fresh(r)' => Fresh(r), Refused(r)' => Refused(r) \/ Fresh(r)
  PROVE  Unasked(r)'
  BY DEF Unasked, Quiet

LEMMA QuietKeeps ==
  ASSUME DispatchInv, RejectInv, Calm, \A r \in Runs : Quiet(r) PROVE RejectInv'
  BY CalmStep, QuietRun DEF RejectInv

\* The other runs may learn anything that is no contradiction.
LEMMA RunsKeep ==
  ASSUME DispatchInv, RejectInv, Calm, \A r \in Runs : Quiet(r) \/ Unasked(r)'
  PROVE  RejectInv'
  BY CalmStep, QuietRun DEF RejectInv

\* What is learned of a run that is not starting is none.
LEMMA AskedKeeps ==
  ASSUME DispatchInv, RejectInv, Calm,
         \A r \in Runs : Quiet(r) \/ (~Fresh(r) /\ ~Refused(r))
  PROVE  RejectInv'
BY CalmStep, RunsKeep DEF RejectInv, Unasked

-------------------------------------------------------------------------------
(* Steps of the daemon *)

LEMMA DaemonKeeps ==
  ASSUME DispatchInv, RejectInv, UNCHANGED <<storeVars, serverVars>>, cur' \in {0, cur},
         \A c \in Conns :
           /\ n2s'[c] # <<>> => n2s[c] # <<>> \/ Up(c)
           /\ \A r \in Runs :
                /\ StartOf(r) \in ToSet(s2n'[c]) => StartFrom(r, c)
                /\ <<c, StartOf(r)>> \in nodeTodo' => StartFrom(r, c)
                /\ RejectOf(r) \in ToSet(n2s'[c]) => StartFrom(r, c)
  PROVE  RejectInv'
<1>1. /\ UNCHANGED <<binding, reg, grace, expiring, queued, startOps, stopDone>>
      /\ UNCHANGED <<run, reason, confirmed>>
  BY DEF storeVars, runVars, serverVars
<1>2. ASSUME NEW r \in Runs PROVE StartStays(r) /\ Quiet(r)
  BY <1>1 DEF StartFrom, RejectedOn, Asked, AskedOf, StartStays, Quiet
<1>3. Calm
  BY <1>1, <1>2 DEF Calm, OnlyRejects
<1> QED
  BY <1>2, <1>3, QuietKeeps

\* An answer goes out on the open socket, or nowhere.
LEMMA AnswerIs ==
  ASSUME DispatchInv, NEW c, NEW f \in Frames, NEW d \in Conns
  PROVE  /\ Answer(c, f)[d] # <<>> => n2s[d] # <<>> \/ Up(d)
         /\ \A g \in ToSet(Answer(c, f)[d]) : g \in ToSet(n2s[d]) \/ (g = f /\ d = c /\ Up(c))
BY AppendElems DEF DispatchInv, Types, NetTypes, NodeTypes, Answer

\* The daemon answers, or sends an event: nothing that starts a run or rejects it.
LEMMA DaemonAnswers ==
  ASSUME DispatchInv, RejectInv, UNCHANGED <<storeVars, serverVars>>, cur' \in {0, cur},
         NEW c, NEW f \in Frames, n2s' = n2s \/ n2s' = Answer(c, f),
         f.op = "startAck" => f.status # "rejected",
         \A d \in Conns, r \in Runs :
           /\ StartOf(r) \in ToSet(s2n'[d]) => StartOf(r) \in ToSet(s2n[d])
           /\ <<d, StartOf(r)>> \in nodeTodo' => StartFrom(r, d)
  PROVE  RejectInv'
<1>1. ASSUME NEW d \in Conns
      PROVE  /\ n2s'[d] # <<>> => n2s[d] # <<>> \/ Up(d)
             /\ \A g \in ToSet(n2s'[d]) : g \in ToSet(n2s[d]) \/ g = f
  BY AnswerIs
<1>2. \A r \in Runs : RejectOf(r) # f
  BY DEF RejectOf, Frame
<1>3. \A d \in Conns, r \in Runs : RejectOf(r) \in ToSet(n2s'[d]) => StartFrom(r, d)
  BY <1>1, <1>2 DEF StartFrom, RejectedOn
<1>4. \A d \in Conns, r \in Runs : StartOf(r) \in ToSet(s2n'[d]) => StartFrom(r, d)
  BY DEF StartFrom
<1> QED
  BY <1>1, <1>3, <1>4, DaemonKeeps

LEMMA DropKeeps ==
  ASSUME DispatchInv, RejectInv, NEW c \in Conns, NodeDrop(c) PROVE RejectInv'
BY NoElems, DaemonKeeps DEF NodeDrop, StartFrom, DispatchInv, Types, NetTypes, RejectedOn

LEMMA DaemonRestarts == ASSUME DispatchInv, RejectInv, NodeRestart PROVE RejectInv'
BY DaemonKeeps, NoElems DEF NodeRestart, StartFrom, RejectedOn

LEMMA ExitKeeps ==
  ASSUME DispatchInv, RejectInv, NEW r \in Runs, ProcessEnds(r) PROVE RejectInv'
BY DaemonKeeps DEF ProcessEnds, ProcessExit, netVars, StartFrom, RejectedOn

LEMMA TerminalSent ==
  ASSUME DispatchInv, RejectInv, NEW r \in Runs, SendTerminal(r) PROVE RejectInv'
<1>1. exit[r] \in Phases
  BY DEF DispatchInv, Types, NodeTypes, SendTerminal, Phases
<1>2. PICK f : f = Frame("event", r, 1, exit[r])
  OBVIOUS
<1>3. f \in Frames /\ f.op = "event"
  <2>1. 1 \in 0..2
    OBVIOUS
  <2>2. Frame("event", r, 1, exit[r]) \in Frames
    BY <1>1, <2>1, FrameKinds
  <2> QED
    BY <1>2, <2>2 DEF Frame
<1>4. n2s' = Answer(cur, f)
  BY <1>2 DEF SendTerminal, SendEvent, Event
<1>5. UNCHANGED <<storeVars, serverVars, cur, nodeTodo, s2n>>
  BY DEF SendTerminal
<1> QED
  BY <1>3, <1>4, <1>5, DaemonAnswers DEF StartFrom

LEMMA StopsAndResumesAnswered ==
  ASSUME DispatchInv, RejectInv, NEW h \in nodeTodo,
         OnRunStop(h[1], h[2]) \/ OnRunResume(h[1], h[2])
  PROVE  RejectInv'
<1>1. NodeTypes /\ h[2].run \in Runs /\ h[2].n \in Nat
  BY NodeTodoFrames DEF DispatchInv, Types
<1>2. \E f \in Frames : f.op \in {"stopAck", "resumeAck"} /\ n2s' = Answer(h[1], f)
  BY <1>1, FrameKinds DEF OnRunStop, Frame, OnRunResume
<1>3. PICK f \in Frames : f.op \in {"stopAck", "resumeAck"} /\ n2s' = Answer(h[1], f)
  BY <1>2
<1>4. UNCHANGED <<storeVars, serverVars, cur, s2n>> /\ nodeTodo' \subseteq nodeTodo
  BY DEF OnRunStop, OnRunResume
<1> QED
  BY <1>3, <1>4, DaemonAnswers DEF StartFrom

\* The daemon takes a frame up.
LEMMA FrameTaken ==
  ASSUME DispatchInv, NEW c \in Conns, s2n[c] # <<>>, s2n' = [s2n EXCEPT ![c] = Tail(@)]
  PROVE  /\ Head(s2n[c]) \in Frames /\ Head(s2n[c]) \in ToSet(s2n[c])
         /\ Head(s2n[c]).run \in Runs
         /\ \A d \in Conns : ToSet(s2n'[d]) \subseteq ToSet(s2n[d])
<1>1. s2n \in [Conns -> Seq(Frames)]
  BY DEF DispatchInv, Types, NetTypes
<1>2. Head(s2n[c]) \in Frames /\ Head(s2n[c]) \in ToSet(s2n[c])
  BY <1>1, TailElems
<1>3. \A d \in Conns : ToSet(s2n'[d]) \subseteq ToSet(s2n[d])
  BY <1>1, TailElems
<1> QED
  BY <1>2, <1>3 DEF Frames

LEMMA CommandTaken ==
  ASSUME DispatchInv, RejectInv, NEW c \in Conns, NodeReceive(c) PROVE RejectInv'
<1> DEFINE f == Head(s2n[c])
<1>1. /\ f \in Frames /\ f \in ToSet(s2n[c]) /\ f.run \in Runs
      /\ \A d \in Conns : ToSet(s2n'[d]) \subseteq ToSet(s2n[d])
  BY FrameTaken DEF NodeReceive
<1>2. PICK g : g = Frame("startAck", f.run, 0, "accepted")
  OBVIOUS
<1>3. g \in Frames /\ g.status = "accepted"
  BY <1>1, <1>2, FrameKinds DEF Frame
<1>4. /\ UNCHANGED <<storeVars, serverVars, cur>> /\ nodeTodo' \subseteq nodeTodo \cup {<<c, f>>}
      /\ n2s' = n2s \/ n2s' = Answer(c, g)
  BY <1>2 DEF NodeReceive, OnRunStart
<1> HIDE DEF f
<1>5. \A d \in Conns, r \in Runs :
        /\ StartOf(r) \in ToSet(s2n'[d]) => StartOf(r) \in ToSet(s2n[d])
        /\ <<d, StartOf(r)>> \in nodeTodo' => StartFrom(r, d)
  BY <1>1, <1>4 DEF StartFrom
<1> QED
  BY <1>3, <1>4, <1>5, DaemonAnswers

LEMMA ReceiptTaken ==
  ASSUME DispatchInv, RejectInv, NEW c \in Conns, NodeReceipt(c) PROVE RejectInv'
<1> DEFINE f == Head(s2n[c])
           r == f.run
<1>1. /\ f \in Frames /\ f \in ToSet(s2n[c]) /\ r \in Runs
      /\ \A d \in Conns : ToSet(s2n'[d]) \subseteq ToSet(s2n[d])
  BY FrameTaken DEF NodeReceipt
<1>2. UNCHANGED <<storeVars, serverVars, cur, nodeTodo>>
  BY DEF NodeReceipt
<1> HIDE DEF f
<1>3. \E g \in Frames : g.op = "event" /\ (n2s' = n2s \/ n2s' = Answer(cur, g))
  <2>1. CASE n2s' = n2s
    <3>1. 1 \in 0..2 /\ "failed" \in Phases
      BY DEF Phases
    <3>2. Frame("event", r, 1, "failed") \in Frames
      BY <1>1, <3>1, FrameKinds
    <3> QED
      BY <2>1, <3>2 DEF Frame
  <2>2. CASE pend[r] # NoEvent /\ ~pend[r].last
             /\ n2s' = SendEvent(r, Event(pend[r].seq + 1, "failed", TRUE))
    <3>1. Streamed(r) /\ pend[r].seq \in 0..2
      BY <1>1 DEF DispatchInv, Types, NodeTypes, EventsFollow
    <3>2. pend[r].seq + 1 \in 0..2 /\ "failed" \in Phases
      BY <2>2, <3>1 DEF Streamed, Phases
    <3>3. Frame("event", r, pend[r].seq + 1, "failed") \in Frames
      BY <1>1, <3>2, FrameKinds
    <3>4. n2s' = Answer(cur, Frame("event", r, pend[r].seq + 1, "failed"))
      BY <2>2 DEF SendEvent, Event
    <3> QED
      BY <3>3, <3>4 DEF Frame
  <2> QED
    BY <2>1, <2>2 DEF NodeReceipt, ReceiptAccepted, ReceiptRejected, f
<1>4. PICK g \in Frames : g.op = "event" /\ (n2s' = n2s \/ n2s' = Answer(cur, g))
  BY <1>3
<1> QED
  BY <1>1, <1>2, <1>4, DaemonAnswers DEF StartFrom

\* The start comes to its end at the daemon.
LEMMA StartRejected ==
  ASSUME DispatchInv, RejectInv, NEW r \in Runs, StartFails(r) PROVE RejectInv'
<1>1. PICK h \in nodeTodo : /\ h[2].op = "start" /\ h[2].run = r
                            /\ nodeTodo' = nodeTodo \ {h}
                            /\ n2s' = Answer(h[1], Frame("startAck", r, 0, "rejected"))
                            /\ UNCHANGED <<storeVars, serverVars, cur, s2n>>
  BY DEF StartFails
<1>2. h = <<h[1], h[2]>> /\ h[1] \in Conns /\ h[2] \in Frames
  BY NodeTodoFrames DEF DispatchInv, Types
<1>3. h[2] = StartOf(r)
  BY <1>1, <1>2 DEF Frames, StartOf, Frame
<1>4. StartFrom(r, h[1])
  BY <1>2, <1>3 DEF StartFrom
<1>5. RejectOf(r) \in Frames /\ n2s' = Answer(h[1], RejectOf(r))
  BY <1>1, FrameKinds DEF RejectOf
<1>6. ASSUME NEW d \in Conns
      PROVE  /\ n2s'[d] # <<>> => n2s[d] # <<>> \/ Up(d)
             /\ \A x \in Runs : RejectOf(x) \in ToSet(n2s'[d]) => StartFrom(x, d)
  BY <1>5, AnswerIs, <1>4, StartsDiffer DEF StartFrom, RejectedOn
<1> QED
  BY <1>1, <1>6, DaemonKeeps DEF StartFrom

LEMMA StartAccepts ==
  ASSUME DispatchInv, RejectInv, NEW r \in Runs, StartSucceeds(r) PROVE RejectInv'
<1>0. n2s \in [Conns -> Seq(Frames)] /\ cur \in {0} \cup Conns
  BY DEF DispatchInv, Types, NetTypes, NodeTypes
<1> DEFINE ack == Frame("startAck", r, 0, "accepted")
           started == Frame("event", r, 0, "started")
<1>1. /\ UNCHANGED <<storeVars, serverVars, cur, s2n>> /\ nodeTodo' \subseteq nodeTodo
      /\ \/ n2s' = n2s
         \/ Up(cur) /\ n2s' = [n2s EXCEPT ![cur] = @ \o <<started>>]
         \/ Up(cur) /\ n2s' = [n2s EXCEPT ![cur] = @ \o <<ack, started>>]
  BY DEF StartSucceeds
<1>2. /\ ack \in Frames /\ ack.status = "accepted"
      /\ started \in Frames /\ started.op = "event"
  <2>1. 0 \in 0..2 /\ "started" \in Phases
    BY DEF Phases
  <2> QED
    BY <2>1, FrameKinds DEF Frame
<1> HIDE DEF ack, started
<1>3. ASSUME NEW d \in Conns
      PROVE  /\ n2s'[d] # <<>> => n2s[d] # <<>> \/ Up(d)
             /\ \A g \in ToSet(n2s'[d]) : g \in ToSet(n2s[d]) \/ g = ack \/ g = started
  <2>1. CASE n2s'[d] = n2s[d]
    BY <2>1
  <2>2. CASE Up(d) /\ n2s'[d] = Append(n2s[d], started)
    BY <1>0, <1>2, <2>2, AppendElems
  <2>3. CASE Up(d) /\ n2s'[d] = Append(Append(n2s[d], ack), started)
    <3>1. PICK q : q = Append(n2s[d], ack)
      OBVIOUS
    <3>2. q \in Seq(Frames) /\ ToSet(q) = ToSet(n2s[d]) \cup {ack}
      BY <1>0, <1>2, <3>1, AppendElems
    <3>3. ToSet(Append(q, started)) = ToSet(q) \cup {started}
      BY <1>2, <3>2, AppendElems
    <3> QED
      BY <2>3, <3>1, <3>2, <3>3
  <2>4. /\ n2s[d] \o <<started>> = Append(n2s[d], started)
        /\ n2s[d] \o <<ack, started>> = Append(Append(n2s[d], ack), started)
    BY <1>0, <1>2, ConcatIsAppend
  <2> QED
    BY <1>0, <1>1, <2>1, <2>2, <2>3, <2>4
<1>4. \A x \in Runs : RejectOf(x) # ack /\ RejectOf(x) # started
  BY <1>2 DEF RejectOf, Frame
<1> QED
  BY <1>1, <1>3, <1>4, DaemonKeeps DEF StartFrom, RejectedOn

\* A new socket: nothing came over it yet but the events that wait.
LEMMA ConnectOrdered ==
  ASSUME DispatchInv, RejectInv, OrderedClose, NEW c \in Conns, NodeConnect(c)
  PROVE  RejectInv'
<1>0. /\ binding \in [Conns -> Bindings] /\ n2s \in [Conns -> Seq(Frames)]
      /\ reg # 0 => reg \in Conns /\ binding[reg].side \in {"active", "ready"}
  BY DEF DispatchInv, Types, NetTypes, ServerTypes, InStepHere
<1>1. /\ binding[c].side = "none" /\ \A d \in Conns : d < c => Closed(d)
      /\ cur' = c /\ binding' = [binding EXCEPT ![c].side = "open"]
      /\ n2s' = [n2s EXCEPT ![c] = PendingFrames]
      /\ UNCHANGED <<storeVars, reg, grace, expiring, queued, startOps, stopDone, nodeTodo, s2n>>
      /\ UNCHANGED <<run, reason, confirmed>>
  BY DEF NodeConnect, Closed, Conns, storeVars, runVars
<1>2. \A f \in ToSet(PendingFrames) : f.op = "event"
  <2> DEFINE T == {Frame("event", r, pend[r].seq, pend[r].body) : r \in {x \in Runs : pend[x] # NoEvent}}
  <2>1. IsFiniteSet(T)
    <3> DEFINE R == {x \in Runs : pend[x] # NoEvent}
               g == [r \in R |-> Frame("event", r, pend[r].seq, pend[r].body)]
    <3>1. IsFiniteSet(R)
      BY DispatchAssumption, FS_Subset DEF DispatchAssumption
    <3>2. g \in Surjection(R, T)
      BY DEF Surjection
    <3> QED
      BY <3>1, <3>2, FS_Surjection
  <2>2. ToSet(SetToSeq(T)) \subseteq T
    BY <2>1, SetToSeqElems
  <2>3. \A f \in T : f.op = "event"
    BY DEF Frame
  <2> QED
    BY <2>2, <2>3 DEF PendingFrames
<1>3. ASSUME NEW d \in Conns
      PROVE  /\ d # c => binding'[d] = binding[d] /\ n2s'[d] = n2s[d]
             /\ binding'[c].side = "open" /\ binding'[d].work = binding[d].work
             /\ binding'[d].resume = binding[d].resume
             /\ n2s'[c] = PendingFrames
             /\ Closed(d)' <=> Closed(d)
             /\ \A r \in Runs : AskedOf(binding'[d], r) <=> AskedOf(binding[d], r)
  BY <1>0, <1>1 DEF Closed, AskedOf, Bindings
<1>4. ASSUME NEW r \in Runs, NEW d \in Conns, StartFrom(r, d)' PROVE StartFrom(r, d)
  BY <1>2, <1>3, <1>1, <1>4 DEF RejectOf, Frame, StartFrom, RejectedOn
<1>5. InOrder'
  BY <1>1, <1>3, <1>4 DEF RejectInv, InOrder
<1>6. ASSUME NEW r \in Runs PROVE Unasked(r)'
  BY <1>1, <1>3, <1>4 DEF Fresh, Refused, Asked, RejectInv, Unasked
<1> QED
  BY <1>5, <1>6 DEF RejectInv

-------------------------------------------------------------------------------
(* Steps of the server that ask for nothing new *)

\* The store, and what the server has still to do there.
LEMMA StoreCalm ==
  ASSUME UNCHANGED <<binding, reg, nodeVars, netVars>>, startOps' \subseteq startOps,
         \A r \in Runs : /\ run'[r] = None => run[r] = None
                         /\ r \in queued' => r \in queued \/ run[r] = None
  PROVE  /\ Calm
         /\ \A r \in Runs : Asked(r)' => \/ Asked(r) \/ r \in confirmed'
                                         \/ <<r, "reconcile">> \in stopDone'
BY DEF nodeVars, netVars, StartFrom, RejectedOn, Calm, StartStays, Asked, AskedOf, OnlyRejects

LEMMA UserKeeps ==
  ASSUME DispatchInv, RejectInv,
         \/ UserStep \/ GraceExpire \/ \E t \in Tasks, r \in Runs : Assign(t, r)
  PROVE  RejectInv'
<1>0. RowTypes
  BY DEF DispatchInv, Types
<1>1. CASE UserStep \/ GraceExpire
  <2>1. /\ UNCHANGED <<binding, reg, nodeVars, netVars, startOps, queued, stopDone>>
        /\ UNCHANGED <<run, reason, confirmed>>
        /\ grace' \cup expiring' = grace \cup expiring
    BY <1>1 DEF UserStep, GraceExpire, MarkReady, AcceptReview, RequestChanges, RetryTask,
                serverVars, storeVars, runVars
  <2>2. Calm /\ \A r \in Runs : Quiet(r)
    BY <2>1, StoreCalm DEF Quiet, Asked
  <2> QED
    BY <2>2, QuietKeeps
<1>2. ASSUME NEW t \in Tasks, NEW r \in Runs, Assign(t, r) PROVE RejectInv'
  <2>1. /\ UNCHANGED <<binding, reg, grace, expiring, startOps, stopDone, nodeVars, netVars>>
        /\ UNCHANGED <<reason, confirmed>> /\ run[r] = None
        /\ run' = [run EXCEPT ![r] = "queued"] /\ queued' = queued \cup {r}
    BY <1>2 DEF Assign, AssignTask
  <2>2. \A x \in Runs : run'[x] = IF x = r THEN "queued" ELSE run[x]
    BY <1>0, <2>1 DEF RowTypes
  <2>3. Calm /\ \A x \in Runs : Quiet(x)
    BY <2>1, <2>2, StoreCalm, StoreAssumption DEF Quiet, Asked, StoreAssumption, RunStatus
  <2> QED
    BY <2>3, QuietKeeps
<1> QED
  BY <1>1, <1>2

\* The start goes on towards the daemon, on the current connection.
LEMMA StartGoesOn ==
  ASSUME DispatchInv, RejectInv, NEW r \in Runs, NEW c \in Conns,
         OnRunQueued(r) \/ SendRunStart(r, c)
  PROVE  RejectInv'
<1>0. ServerTypes /\ NetTypes
  BY DEF DispatchInv, Types
<1>1. CASE OnRunQueued(r)
  <2>1. /\ UNCHANGED <<binding, reg, grace, expiring, stopDone, cur, nodeTodo, s2n, n2s>>
        /\ UNCHANGED <<run, reason, confirmed>> /\ queued' = queued \ {r} /\ r \in queued
        /\ startOps' \subseteq startOps \cup {<<r, reg>>}
    BY <1>1 DEF OnRunQueued, storeVars, runVars, nodeVars, netVars
  <2>2. ASSUME NEW x \in Runs, NEW d \in Conns, StartFrom(x, d)'
        PROVE  StartFrom(x, d) \/ (x \in queued /\ reg = d)
    BY <2>1, <2>2 DEF StartFrom, RejectedOn
  <2>3. Calm /\ \A x \in Runs : Quiet(x)
    BY <2>1, <2>2 DEF Calm, StartStays, Quiet, Asked, AskedOf, OnlyRejects
  <2> QED
    BY <2>3, QuietKeeps
<1>2. CASE SendRunStart(r, c)
  <2>1. /\ UNCHANGED <<reg, grace, expiring, queued, stopDone, cur, nodeTodo, n2s>>
        /\ UNCHANGED <<run, reason, confirmed>>
        /\ startOps' \subseteq startOps /\ <<r, c>> \in startOps
        /\ s2n' \in {s2n, Sent(c, StartOf(r))}
        /\ binding' \in {binding, [binding EXCEPT ![c].start = @ \cup {r}]}
    BY <1>2 DEF SendRunStart, storeVars, runVars, nodeVars, StartOf
  <2>2. ASSUME NEW d \in Conns
        PROVE  /\ binding'[d].side = binding[d].side /\ binding'[d].work = binding[d].work
               /\ binding'[d].resume = binding[d].resume
               /\ \A x \in Runs : AskedOf(binding'[d], x) <=> AskedOf(binding[d], x)
    <3>1. CASE binding' = binding
      BY <3>1
    <3>2. CASE binding' = [binding EXCEPT ![c].start = @ \cup {r}]
      BY <1>0, <3>2 DEF ServerTypes, AskedOf, Bindings
    <3> QED
      BY <2>1, <3>1, <3>2
  <2>3. ASSUME NEW x \in Runs, NEW d \in Conns, StartOf(x) \in ToSet(s2n'[d])
        PROVE  StartFrom(x, d)
    <3>1. CASE s2n' = s2n
      BY <2>3, <3>1 DEF StartFrom
    <3>2. CASE s2n' = [s2n EXCEPT ![c] = Append(@, StartOf(r))]
      <4>1. ToSet(s2n'[c]) = ToSet(s2n[c]) \cup {StartOf(r)} /\ (d # c => s2n'[d] = s2n[d])
        BY <1>0, <3>2, FrameKinds, AppendElems DEF NetTypes
      <4> QED
        BY <2>1, <2>3, <4>1, StartsDiffer DEF StartFrom
    <3> QED
      BY <2>1, <3>1, <3>2 DEF Sent
  <2>4. \A x \in Runs, d \in Conns : StartFrom(x, d)' => StartFrom(x, d)
    BY <2>1, <2>2, <2>3 DEF StartFrom, RejectedOn
  <2>5. Calm /\ \A x \in Runs : Quiet(x)
    BY <2>1, <2>2, <2>4 DEF Calm, StartStays, Quiet, Asked, OnlyRejects
  <2> QED
    BY <2>5, QuietKeeps
<1> QED
  BY <1>1, <1>2

\* One binding changes, and no start is sent.
LEMMA BindingCalm ==
  ASSUME DispatchInv, NEW c \in Conns, NEW b \in Bindings, binding' = [binding EXCEPT ![c] = b],
         b.side = binding[c].side \/ (b.side = "ready" /\ binding[c].side = "active"),
         Closed(c) /\ b.work # <<>> => binding[c].work # <<>>,
         Closed(c) => b.resume \subseteq binding[c].resume,
         OnlyRejects(binding[c].work, b.work),
         \A r \in Runs : RejectOf(r) \in ToSet(b.work) =>
           RejectOf(r) \in ToSet(binding[c].work) \/ (~Closed(c) /\ StartFrom(r, c)),
         \A d \in Conns :
           /\ \A r \in Runs : StartOf(r) \in ToSet(s2n'[d]) => StartOf(r) \in ToSet(s2n[d])
           /\ ToSet(n2s'[d]) \subseteq ToSet(n2s[d]) /\ (n2s'[d] # <<>> => n2s[d] # <<>>),
         UNCHANGED <<reg, queued, startOps, nodeVars>>,
         \A r \in Runs : run'[r] = None => run[r] = None
  PROVE  /\ Calm
         /\ \A r \in Runs : Asked(r)' => \/ Asked(r) \/ AskedOf(b, r) \/ r \in confirmed'
                                         \/ <<r, "reconcile">> \in stopDone'
<1>1. \A d \in Conns : binding'[d] = IF d = c THEN b ELSE binding[d]
  BY DEF DispatchInv, Types, ServerTypes
<1>2. UNCHANGED <<cur, nodeTodo>>
  BY DEF nodeVars
<1>3. ASSUME NEW r \in Runs, NEW d \in Conns
      PROVE  /\ StartFrom(r, d)' => StartFrom(r, d)
             /\ RejectOf(r) \in ToSet(binding'[d].work) =>
                  RejectOf(r) \in ToSet(binding[d].work) \/ (~Closed(d) /\ StartFrom(r, d))
  BY <1>1, <1>2 DEF StartFrom, RejectedOn
<1>4. \A d \in Conns : /\ \/ binding'[d].side = binding[d].side
                          \/ binding'[d].side = "ready" /\ binding[d].side = "active"
                       /\ Closed(d) => /\ binding'[d].work # <<>> => binding[d].work # <<>>
                                       /\ binding'[d].resume \subseteq binding[d].resume
                       /\ OnlyRejects(binding[d].work, binding'[d].work)
  BY <1>1 DEF OnlyRejects
<1>5. Calm
  BY <1>2, <1>3, <1>4 DEF Calm, StartStays
<1>6. ASSUME NEW r \in Runs, Asked(r)'
      PROVE  \/ Asked(r) \/ AskedOf(b, r) \/ r \in confirmed'
             \/ <<r, "reconcile">> \in stopDone'
  BY <1>1, <1>6 DEF Asked
<1> QED
  BY <1>5, <1>6

LEMMA SendsNoStart ==
  ASSUME NetTypes, NEW c \in Conns, NEW f \in Frames, f.op # "start",
         s2n' = s2n \/ s2n' = Sent(c, f)
  PROVE  \A d \in Conns, r \in Runs : StartOf(r) \in ToSet(s2n'[d]) => StartOf(r) \in ToSet(s2n[d])
<1>1. \A r \in Runs : StartOf(r) # f
  BY StartsDiffer
<1>2. \A d \in Conns : ToSet(s2n'[d]) \subseteq ToSet(s2n[d]) \cup {f}
  BY SentGains DEF Gains, Gain
<1> QED
  BY <1>1, <1>2

LEMMA TakesFrame ==
  ASSUME NetTypes, NEW c \in Conns, n2s' = n2s \/ (n2s[c] # <<>> /\ n2s' = [n2s EXCEPT ![c] = Tail(@)])
  PROVE  \A d \in Conns : ToSet(n2s'[d]) \subseteq ToSet(n2s[d]) /\ (n2s'[d] # <<>> => n2s[d] # <<>>)
BY TailElems DEF NetTypes

\* Nothing is asked for that was not before, and the rows stay.
LEMMA BindingQuiet ==
  ASSUME DispatchInv, RejectInv, NEW c \in Conns, NEW b \in Bindings,
         binding' = [binding EXCEPT ![c] = b], b.side = binding[c].side,
         Closed(c) /\ b.work # <<>> => binding[c].work # <<>>,
         Closed(c) => b.resume \subseteq binding[c].resume,
         OnlyRejects(binding[c].work, b.work),
         \A r \in Runs : RejectOf(r) \in ToSet(b.work) =>
           RejectOf(r) \in ToSet(binding[c].work) \/ (~Closed(c) /\ StartFrom(r, c)),
         NEW f \in Frames, f.op # "start", s2n' = s2n \/ s2n' = Sent(c, f),
         n2s' = n2s \/ (n2s[c] # <<>> /\ n2s' = [n2s EXCEPT ![c] = Tail(@)]),
         UNCHANGED <<storeVars, reg, grace, expiring, queued, startOps, nodeVars>>,
         \A r \in Runs : AskedOf(b, r) \/ <<r, "reconcile">> \in stopDone' => Asked(r)
  PROVE  RejectInv'
<1>1. NetTypes /\ UNCHANGED <<run, reason, confirmed>>
  BY DEF DispatchInv, Types, storeVars, runVars
<1>2. /\ \A d \in Conns, r \in Runs : StartOf(r) \in ToSet(s2n'[d]) => StartOf(r) \in ToSet(s2n[d])
      /\ \A d \in Conns : ToSet(n2s'[d]) \subseteq ToSet(n2s[d]) /\ (n2s'[d] # <<>> => n2s[d] # <<>>)
  BY <1>1, SendsNoStart, TakesFrame
<1>3. /\ Calm
      /\ \A r \in Runs : Asked(r)' => \/ Asked(r) \/ AskedOf(b, r) \/ r \in confirmed'
                                      \/ <<r, "reconcile">> \in stopDone'
  BY <1>1, <1>2, BindingCalm
<1>4. \A r \in Runs : Quiet(r)
  BY <1>1, <1>3 DEF Quiet, Asked
<1> QED
  BY <1>3, <1>4, QuietKeeps

LEMMA StopAsked ==
  ASSUME DispatchInv, RejectInv, NEW c \in Conns, NEW b \in Bindings,
         b.work = binding[c].work, b.side = binding[c].side, b.resume = binding[c].resume,
         \A x \in Runs : AskedOf(b, x) => Asked(x),
         NEW r \in Runs, NEW intent \in Intents, intent = "reconcile" => Asked(r),
         DispatchRunStop(c, b, r, intent),
         UNCHANGED <<storeVars, reg, grace, expiring, queued, startOps, stopDone, nodeVars, n2s>>
  PROVE  RejectInv'
<1> DEFINE n == stopNo[r] + 1
           sends == b.stop[r] = "idle"
           f == Frame("stop", r, n, "")
           wt == b.wait \cup {<<r, intent>>}
           st == [b.stop EXCEPT ![r] = IF sends THEN "sent" ELSE @]
           b2 == [b EXCEPT !.wait = wt, !.stop = st]
<1>1. f \in Frames /\ f.op = "stop"
  <2>1. n \in Nat
    BY DEF DispatchInv, Types, NetTypes
  <2> HIDE DEF n
  <2> QED
    BY <2>1, FrameKinds DEF Frame
<1>2. binding' = [binding EXCEPT ![c] = b2] /\ (s2n' = s2n \/ s2n' = Sent(c, f))
  BY DEF Bindings, DispatchRunStop
<1> HIDE DEF f
<1>3. wt \subseteq Runs \X Intents /\ st \in [Runs -> {"idle", "sent", "acked"}]
  BY DEF Bindings
<1> HIDE DEF st
<1>4. b2 \in Bindings /\ b2.work = b.work /\ b2.side = b.side /\ b2.resume = b.resume
  BY <1>3 DEF Bindings
<1>5. ASSUME NEW x \in Runs, AskedOf(b2, x) PROVE Asked(x)
  BY <1>5 DEF Bindings, AskedOf
<1> HIDE DEF b2
<1>6. /\ Closed(c) /\ b2.work # <<>> => binding[c].work # <<>>
      /\ Closed(c) => b2.resume \subseteq binding[c].resume
      /\ \A x \in Runs : RejectOf(x) \in ToSet(b2.work) => RejectOf(x) \in ToSet(binding[c].work)
      /\ \A x \in Runs : <<x, "reconcile">> \in stopDone' => Asked(x)
  BY <1>4 DEF Asked
<1> QED
  BY <1>1, <1>2, <1>4, <1>5, <1>6, BindingQuiet DEF OnlyRejects

LEMMA StopStepsAsked ==
  ASSUME DispatchInv, RejectInv, NEW c \in Conns, NEW r \in Runs,
         CancelRun(r) \/ ReconcileSurvivingProcess(c, r)
  PROVE  RejectInv'
<1>0. Types
  BY DEF DispatchInv
<1>1. CASE CancelRun(r)
  BY <1>0, <1>1, BindingTypes, StopAsked DEF CancelRun, Types, ServerTypes, Asked, Intents
<1>2. CASE ReconcileSurvivingProcess(c, r)
  <2> DEFINE b == [binding[c] EXCEPT !.reconcile = @ \ {r}]
  <2>1. /\ b \in Bindings /\ b.work = binding[c].work /\ b.side = binding[c].side
        /\ b.resume = binding[c].resume
    BY <1>0, BindingTypes DEF Bindings
  <2>2. \A x \in Runs : AskedOf(b, x) => Asked(x)
    BY <1>0, BindingTypes, <2>1 DEF Bindings, Asked, AskedOf
  <2>3. Asked(r)
    BY <1>2 DEF Asked, AskedOf, ReconcileSurvivingProcess
  <2>4. \/ DispatchRunStop(c, b, r, "reconcile")
        \/ binding' = [binding EXCEPT ![c] = b] /\ s2n' = s2n
    BY <1>2 DEF ReconcileSurvivingProcess
  <2>5. UNCHANGED <<storeVars, reg, grace, expiring, queued, startOps, stopDone, nodeVars, n2s>>
    BY <1>2 DEF ReconcileSurvivingProcess
  <2> HIDE DEF b
  <2>6. CASE DispatchRunStop(c, b, r, "reconcile")
    BY <2>1, <2>2, <2>3, <2>5, <2>6, StopAsked DEF Intents
  <2>7. CASE binding' = [binding EXCEPT ![c] = b] /\ s2n' = s2n
    <3>1. \A x \in Runs : <<x, "reconcile">> \in stopDone' => Asked(x)
      BY <2>5 DEF Asked
    <3>2. PICK f : f = Frame("resume", r, 0, "")
      OBVIOUS
    <3>3. f \in Frames /\ f.op # "start"
      BY <3>2, FrameKinds DEF Frame
    <3> QED
      BY <2>1, <2>2, <2>5, <2>7, <3>1, <3>3, BindingQuiet DEF OnlyRejects
  <2> QED
    BY <2>4, <2>6, <2>7
<1> QED
  BY <1>1, <1>2

\* What is resumed was to be resumed.
LEMMA ResumeStepsAsked ==
  ASSUME DispatchInv, RejectInv, NEW c \in Conns, NEW r \in Runs,
         SendRunResume(c, r) \/ ResumeTimeout(c, r)
  PROVE  RejectInv'
<1>0. binding[c] \in Bindings
  BY BindingTypes DEF DispatchInv
<1>1. PICK g : g = Frame("resume", r, 0, "")
  OBVIOUS
<1>2. g \in Frames /\ g.op = "resume"
  BY <1>1, FrameKinds DEF Frame
<1>3. /\ UNCHANGED <<storeVars, reg, grace, expiring, queued, startOps, nodeVars>>
      /\ n2s' = n2s /\ (s2n' = s2n \/ s2n' = Sent(c, g))
      /\ \A x \in Runs : <<x, "reconcile">> \in stopDone' => Asked(x)
  BY <1>1 DEF SendRunResume, ResumeTimeout, netVars, Asked
<1>4. CASE SendRunResume(c, r)
  <2> DEFINE b == IF reg = c THEN [binding[c] EXCEPT !.todo = @ \ {r}, !.resume = @ \cup {r}]
                  ELSE [binding[c] EXCEPT !.todo = {}]
  <2>1. /\ b \in Bindings /\ b.work = binding[c].work /\ b.side = binding[c].side
        /\ ~Closed(c) \/ b.resume \subseteq binding[c].resume
    <3>1. c # 0
      BY DispatchAssumption DEF DispatchAssumption, Conns
    <3>2. reg = c => ~Closed(c)
      BY <3>1 DEF Closed, DispatchInv, InStepHere
    <3>3. b \in Bindings /\ b.work = binding[c].work /\ b.side = binding[c].side
      BY <1>0, <1>4 DEF Bindings
    <3>4. reg # c => b.resume = binding[c].resume
      BY <1>0 DEF Bindings
    <3> QED
      BY <3>2, <3>3, <3>4
  <2>2. \A x \in Runs : AskedOf(b, x) => Asked(x)
    <3>1. /\ b.snap = binding[c].snap /\ b.todo \subseteq binding[c].todo /\ b.wait = binding[c].wait
          /\ b.resume \subseteq binding[c].resume \cup binding[c].todo
          /\ b.reconcile = binding[c].reconcile
      BY <1>0, <1>4 DEF Bindings, SendRunResume
    <3> QED
      BY <2>1, <3>1 DEF Asked, AskedOf
  <2>3. binding' = [binding EXCEPT ![c] = b]
    BY <1>4 DEF SendRunResume
  <2> HIDE DEF b
  <2> QED
    BY <1>2, <1>3, <2>1, <2>2, <2>3, BindingQuiet DEF OnlyRejects
<1>5. CASE ResumeTimeout(c, r)
  <2>1. PICK f : f = Frame("resumeTimeout", r, 0, "")
    OBVIOUS
  <2>2. f \in Frames /\ f.op = "resumeTimeout" /\ f.run = r
    BY <2>1, FrameKinds DEF Frame
  <2>3. PICK q : q = Append(binding[c].work, f)
    OBVIOUS
  <2>4. q \in Seq(Frames) /\ ToSet(q) = ToSet(binding[c].work) \cup {f}
    BY <1>0, <2>2, <2>3, AppendElems DEF Bindings
  <2> DEFINE b == [binding[c] EXCEPT !.resume = @ \ {r}, !.work = q]
  <2>5. b \in Bindings /\ b.work = q /\ b.side = binding[c].side
    BY <1>0, <2>4 DEF Bindings
  <2>6. r \in binding[c].resume
    BY <1>5 DEF ResumeTimeout
  <2>7. \A x \in Runs : AskedOf(b, x) => Asked(x)
    BY <1>0, <2>2, <2>4, <2>5, <2>6 DEF Bindings, Asked, AskedOf
  <2>8. binding' = [binding EXCEPT ![c] = b]
    BY <1>0, <1>5, <2>1, <2>3 DEF ResumeTimeout, Bindings
  <2>9. \A x \in Runs : RejectOf(x) \in ToSet(q) => RejectOf(x) \in ToSet(binding[c].work)
    BY <2>2, <2>4, StartsDiffer
  <2>10. ~Closed(c)
    BY <1>5 DEF ResumeTimeout, RejectInv, InOrder
  <2>11. OnlyRejects(binding[c].work, b.work)
    BY <2>2, <2>4, <2>5 DEF OnlyRejects
  <2> HIDE DEF b
  <2> QED
    BY <1>2, <1>3, <2>5, <2>7, <2>8, <2>9, <2>10, <2>11, BindingQuiet
<1> QED
  BY <1>4, <1>5

\* The callers of the stop of r are answered, and q is the work left.
Settled(x, r, q) ==
  [x EXCEPT !.stop = [@ EXCEPT ![r] = "idle"], !.wait = {w \in @ : w[1] # r}, !.work = q]

LEMMA SettledBinding ==
  ASSUME NEW x \in Bindings, NEW r \in Runs, NEW q \in Seq(Frames), ToSet(q) \subseteq ToSet(x.work)
  PROVE  /\ Settled(x, r, q) \in Bindings /\ Settled(x, r, q).work = q
         /\ Settled(x, r, q).side = x.side /\ Settled(x, r, q).resume = x.resume
         /\ \A y \in Runs : AskedOf(Settled(x, r, q), y) => AskedOf(x, y)
<1> DEFINE b == Settled(x, r, q)
           wt == {w \in x.wait : w[1] # r}
           st == [x.stop EXCEPT ![r] = "idle"]
<1>1. b = [x EXCEPT !.stop = st, !.wait = wt, !.work = q]
  BY DEF Settled
<1>2. wt \subseteq Runs \X Intents /\ wt \subseteq x.wait /\ st \in [Runs -> {"idle", "sent", "acked"}]
  BY DEF Bindings
<1> HIDE DEF wt, st, b
<1>3. /\ b.work = q /\ b.side = x.side /\ b.resume = x.resume
      /\ b.wait = wt /\ b.snap = x.snap /\ b.todo = x.todo /\ b.reconcile = x.reconcile
  BY <1>1 DEF Bindings
<1>4. b \in Bindings
  BY <1>1, <1>2 DEF Bindings
<1>5. \A y \in Runs : AskedOf(b, y) => AskedOf(x, y)
  BY <1>2, <1>3 DEF AskedOf
<1> QED
  BY <1>3, <1>4, <1>5 DEF b

\* A frame that is sent when none is.
LEMMA NoFrame == ASSUME NEW r \in Runs PROVE \E f \in Frames : f.op # "start"
BY FrameKinds DEF Frame

LEMMA StopEndsAsked ==
  ASSUME DispatchInv, RejectInv, NEW c \in Conns,
         WorkStopAck(c) \/ \E r \in Runs : StopTimeout(c, r)
  PROVE  RejectInv'
<1>0. Types /\ binding[c] \in Bindings /\ binding[c].work \in Seq(Frames)
  BY BindingTypes DEF DispatchInv
<1>1. CASE WorkStopAck(c)
  <2>1. PICK f : f = Head(binding[c].work)
    OBVIOUS
  <2>2. PICK q : q = Tail(binding[c].work)
    OBVIOUS
  <2>3. /\ binding[c].work # <<>> /\ f.run \in Runs
        /\ q \in Seq(Frames) /\ ToSet(q) \subseteq ToSet(binding[c].work)
    BY <1>0, <1>1, <2>1, <2>2, WorkHead, TailElems DEF WorkStopAck
  <2>4. PICK b : b = Settled(binding[c], f.run, q)
    OBVIOUS
  <2>5. /\ b \in Bindings /\ b.work = q /\ b.side = binding[c].side /\ b.resume = binding[c].resume
        /\ \A y \in Runs : AskedOf(b, y) => AskedOf(binding[c], y)
    BY <1>0, <2>3, <2>4, SettledBinding
  <2>6. binding' = [binding EXCEPT ![c] = b]
    <3> DEFINE t == [binding[c] EXCEPT !.work = q]
    <3>1. binding' = [binding EXCEPT ![c] = StopSettled(c, t, f.run)]
      BY <1>0, <1>1, <2>1, <2>2, BindingTypes DEF WorkStopAck, WorkDone
    <3>2. StopSettled(c, t, f.run) = b
      BY <1>0, <2>4 DEF Bindings, StopSettled, Settled
    <3> QED
      BY <3>1, <3>2
  <2>7. \A y \in Runs : <<y, "reconcile">> \in stopDone' => Asked(y)
    BY <1>1 DEF WorkStopAck, Asked, AskedOf
  <2>8. /\ UNCHANGED <<storeVars, reg, grace, expiring, queued, startOps, nodeVars>>
        /\ n2s' = n2s /\ s2n' = s2n
    BY <1>1 DEF WorkStopAck, WorkUnchanged
  <2>9. PICK g \in Frames : g.op # "start"
    BY <2>3, NoFrame
  <2>10. \A y \in Runs : AskedOf(b, y) => Asked(y)
    BY <2>5 DEF Asked
  <2> QED
    BY <2>3, <2>5, <2>6, <2>7, <2>8, <2>9, <2>10, BindingQuiet DEF OnlyRejects
<1>2. ASSUME NEW r \in Runs, StopTimeout(c, r) PROVE RejectInv'
  <2>1. PICK q : q = binding[c].work
    OBVIOUS
  <2>4. PICK b : b = Settled(binding[c], r, q)
    OBVIOUS
  <2>5. /\ b \in Bindings /\ b.work = q /\ b.side = binding[c].side /\ b.resume = binding[c].resume
        /\ \A y \in Runs : AskedOf(b, y) => AskedOf(binding[c], y)
    BY <1>0, <2>1, <2>4, SettledBinding
  <2>6. binding' = [binding EXCEPT ![c] = b]
    BY <1>0, <1>2, <2>1, <2>4 DEF StopTimeout, StopSettled, Settled, Bindings
  <2>7. /\ UNCHANGED <<storeVars, reg, grace, expiring, queued, startOps, stopDone, nodeVars>>
        /\ n2s' = n2s /\ s2n' = s2n
    BY <1>2 DEF StopTimeout, netVars
  <2>8. \A y \in Runs : AskedOf(b, y) \/ <<y, "reconcile">> \in stopDone' => Asked(y)
    BY <2>5, <2>7 DEF Asked
  <2>9. PICK g \in Frames : g.op # "start"
    BY NoFrame
  <2> QED
    BY <2>1, <2>5, <2>6, <2>7, <2>8, <2>9, BindingQuiet DEF OnlyRejects
<1> QED
  BY <1>1, <1>2

\* A frame of the daemon comes in: the rejection of a start moves to the queue.
LEMMA ReceiveAsked == ASSUME DispatchInv, RejectInv, NEW c \in Conns, Receive(c) PROVE RejectInv'
<1>0. Types /\ binding[c] \in Bindings /\ binding[c].work \in Seq(Frames) /\ NetTypes
  BY BindingTypes DEF DispatchInv, Types
<1>1. PICK f : f = Head(n2s[c])
  OBVIOUS
<1>2. f \in Frames /\ f \in ToSet(n2s[c]) /\ n2s[c] # <<>> /\ f.run \in Runs
  <2>1. f \in Frames /\ f \in ToSet(n2s[c]) /\ n2s[c] # <<>>
    BY <1>0, <1>1, TailElems DEF NetTypes, Receive
  <2> QED
    BY <2>1 DEF Frames
<1>3. PICK w : w = Append(binding[c].work, f)
  OBVIOUS
<1>4. w \in Seq(Frames) /\ ToSet(w) = ToSet(binding[c].work) \cup {f}
  BY <1>0, <1>2, <1>3, AppendElems
<1> DEFINE b == Arrived(binding[c], f)
           Fits ==
             /\ b \in Bindings /\ b.side = binding[c].side /\ b.resume \subseteq binding[c].resume
             /\ b.work = binding[c].work \/ b.work = w
             /\ b.work = w /\ f.op \in {"resumeAck", "resumeTimeout"} => f.run \in binding[c].resume
             /\ b.work = w /\ f.op = "startAck" => f.status = "rejected"
             /\ b.snap = binding[c].snap /\ b.todo = binding[c].todo /\ b.wait = binding[c].wait
             /\ b.reconcile \subseteq binding[c].reconcile \cup binding[c].resume
<1>5. Fits
  <2>1. CASE b = binding[c]
    <3>2. binding[c].work # w
      BY <1>0, <1>2, <1>3
    <3> HIDE DEF b
    <3> QED
      BY <1>0, <2>1, <3>2
  <2>2. CASE b = [binding[c] EXCEPT !.work = w] /\ f.op = "event"
    <3> HIDE DEF b
    <3> QED
      BY <1>0, <1>4, <2>2 DEF Bindings
  <2>3. ASSUME NEW t \in [Runs -> {"idle", "sent", "acked"}],
               b = [binding[c] EXCEPT !.stop = t, !.work = w], f.op = "stopAck"
        PROVE  Fits
    <3> HIDE DEF b
    <3> QED
      BY <1>0, <1>4, <2>3 DEF Bindings
  <2>4. ASSUME NEW q \in {binding[c].work, w}, f.op = "startAck",
               q = w => f.status # "accepted",
               b = [binding[c] EXCEPT !.start = binding[c].start \ {f.run}, !.work = q]
        PROVE  Fits
    <3>1. binding[c].start \ {f.run} \subseteq Runs
      BY <1>0 DEF Bindings
    <3>2. q = w => f.status = "rejected"
      BY <1>2, <2>4 DEF Frames
    <3> HIDE DEF b
    <3> QED
      BY <1>0, <1>4, <2>4, <3>1, <3>2 DEF Bindings
  <2>5. CASE /\ f.run \in binding[c].resume /\ f.op = "resumeAck"
             /\ b = [binding[c] EXCEPT !.resume = binding[c].resume \ {f.run},
                                       !.reconcile = binding[c].reconcile \cup {f.run}]
    <3>1. binding[c].resume \ {f.run} \subseteq Runs /\ binding[c].reconcile \cup {f.run} \subseteq Runs
      BY <1>0, <1>2 DEF Bindings
    <3> HIDE DEF b
    <3> QED
      BY <1>0, <2>5, <3>1 DEF Bindings
  <2>6. CASE /\ f.run \in binding[c].resume /\ f.op = "resumeAck"
             /\ b = [binding[c] EXCEPT !.resume = binding[c].resume \ {f.run}, !.work = w]
    <3>1. binding[c].resume \ {f.run} \subseteq Runs
      BY <1>0 DEF Bindings
    <3> HIDE DEF b
    <3> QED
      BY <1>0, <1>4, <2>6, <3>1 DEF Bindings
  <2>7. \/ b = binding[c]
        \/ b = [binding[c] EXCEPT !.work = w] /\ f.op = "event"
        \/ /\ b = [binding[c] EXCEPT !.stop = [binding[c].stop EXCEPT ![f.run] = "acked"], !.work = w]
           /\ f.op = "stopAck"
        \/ /\ f.op = "startAck"
           /\ \E q \in {binding[c].work, w} :
                /\ b = [binding[c] EXCEPT !.start = binding[c].start \ {f.run}, !.work = q]
                /\ q = w => f.status # "accepted"
        \/ /\ f.run \in binding[c].resume /\ f.op = "resumeAck"
           /\ \/ b = [binding[c] EXCEPT !.resume = binding[c].resume \ {f.run},
                                        !.reconcile = binding[c].reconcile \cup {f.run}]
              \/ b = [binding[c] EXCEPT !.resume = binding[c].resume \ {f.run}, !.work = w]
    <3>1. binding[c].work # w
      BY <1>0, <1>2, <1>3
    <3> QED
      BY <1>3, <3>1 DEF Arrived
  <2>8. [binding[c].stop EXCEPT ![f.run] = "acked"] \in [Runs -> {"idle", "sent", "acked"}]
    BY <1>0, <1>2 DEF Bindings
  <2> HIDE DEF b
  <2> QED
    BY <2>1, <2>2, <2>3, <2>4, <2>5, <2>6, <2>7, <2>8
<1>6. binding' = [binding EXCEPT ![c] = b]
  BY <1>1 DEF Receive
<1> HIDE DEF b
<1>7. ~Closed(c)
  BY DEF Receive, Closed
<1>8. \A r \in Runs : RejectOf(r) \in ToSet(b.work) =>
        RejectOf(r) \in ToSet(binding[c].work) \/ (~Closed(c) /\ StartFrom(r, c))
  BY <1>2, <1>4, <1>5, <1>7 DEF StartFrom, RejectedOn
<1>9. \A r \in Runs : AskedOf(b, r) => Asked(r)
  BY <1>4, <1>5 DEF AskedOf, Asked
<1>10. /\ UNCHANGED <<storeVars, reg, grace, expiring, queued, startOps, stopDone, nodeVars>>
       /\ s2n' = s2n /\ n2s' = [n2s EXCEPT ![c] = Tail(@)]
       /\ \A y \in Runs : <<y, "reconcile">> \in stopDone' => Asked(y)
  BY DEF Receive, Asked
<1>11. PICK g \in Frames : g.op # "start"
  BY <1>2, NoFrame
<1>12. OnlyRejects(binding[c].work, b.work)
  BY <1>4, <1>5 DEF OnlyRejects
<1> QED
  BY <1>2, <1>5, <1>6, <1>7, <1>8, <1>9, <1>10, <1>11, <1>12, BindingQuiet

-------------------------------------------------------------------------------
(* The connections change *)

\* The current connection is the only one that is not closed.
LEMMA OneOpen ==
  ASSUME DispatchInv, InOrder, NEW c \in Conns, binding[c].side \in {"open", "active", "ready"}
  PROVE  /\ reg \in {0, c} /\ c # 0 /\ (binding[c].side = "open" => reg = 0)
         /\ (reg = 0 => \A r \in Runs, d \in Conns : StartFrom(r, d) => Closed(d))
         /\ \A d \in Conns : d # c => binding[d].side \notin {"active", "ready"}
<1>1. c # 0 /\ \A d \in Conns : d # 0 /\ d \in Int
  BY DispatchAssumption DEF DispatchAssumption, Conns
<1>2. /\ reg \in {0} \cup Conns
      /\ reg # 0 => binding[reg].side \in {"active", "ready"}
  BY DEF DispatchInv, Types, ServerTypes, InStepHere
<1>3. ASSUME NEW d \in Conns, d # c PROVE binding[d].side \notin {"active", "ready"}
  BY <1>1, <1>3 DEF InOrder, Closed
<1>4. reg \in {0, c} /\ (binding[c].side = "open" => reg = 0)
  BY <1>2, <1>3
<1>5. reg = 0 => \A r \in Runs, d \in Conns : StartFrom(r, d) => Closed(d)
  BY <1>1 DEF InOrder
<1> QED
  BY <1>1, <1>3, <1>4, <1>5

\* The runs that were lost are resumed: none of them is being rejected.
LEMMA ListAsked == ASSUME DispatchInv, RejectInv, NEW c \in Conns, ResumeList(c) PROVE RejectInv'
<1>0. binding[c] \in Bindings /\ NetTypes
  BY BindingTypes DEF DispatchInv, Types
<1>1. PICK todo : todo = (binding[c].snap \cap ActiveRuns) \cup {x \in Runs : UnconfirmedDisconnect(x)}
  OBVIOUS
<1>2. todo \subseteq Runs
  BY <1>0, <1>1 DEF ActiveRuns
<1> DEFINE b == [binding[c] EXCEPT !.side = "ready", !.snap = {}, !.todo = todo]
<1>3. /\ b \in Bindings /\ b.work = binding[c].work /\ b.side = "ready" /\ b.resume = binding[c].resume
      /\ b.snap = {} /\ b.todo = todo /\ b.wait = binding[c].wait /\ b.reconcile = binding[c].reconcile
  BY <1>0, <1>2 DEF Bindings
<1>4. /\ binding' = [binding EXCEPT ![c] = b] /\ binding[c].side = "active"
      /\ UNCHANGED <<reg, grace, expiring, queued, startOps, stopDone, nodeVars, s2n, n2s>>
      /\ UNCHANGED <<run, reason, confirmed>>
  BY <1>1 DEF ResumeList, netVars, storeVars, runVars
<1> HIDE DEF b
<1>5. \A d \in Conns : ToSet(n2s'[d]) \subseteq ToSet(n2s[d]) /\ (n2s'[d] # <<>> => n2s[d] # <<>>)
  BY <1>4
<1>6. /\ Calm
      /\ \A r \in Runs : Asked(r)' => \/ Asked(r) \/ AskedOf(b, r) \/ r \in confirmed'
                                      \/ <<r, "reconcile">> \in stopDone'
  BY <1>3, <1>4, <1>5, BindingCalm DEF OnlyRejects
<1>7. ASSUME NEW r \in Runs, AskedOf(b, r) PROVE Asked(r) \/ UnconfirmedDisconnect(r)
  BY <1>1, <1>3, <1>7 DEF Asked, AskedOf
<1>8. ASSUME NEW r \in Runs, UnconfirmedDisconnect(r) PROVE ~Fresh(r) /\ ~Refused(r)
  <2>1. ~Fresh(r)
    BY <1>8 DEF RejectInv, Unasked, UnconfirmedDisconnect
  <2>2. reg = c /\ reg # 0
    BY <1>4, OneOpen DEF RejectInv, InOrder
  <2>3. ASSUME NEW d \in Conns, RejectOf(r) \in ToSet(binding[d].work) PROVE FALSE
    BY <2>1, <2>3, NoElems, <2>2 DEF Fresh, StartFrom, RejectedOn, RejectInv, InOrder
  <2> QED
    BY <2>1, <2>3 DEF Refused
<1>9. ASSUME NEW r \in Runs PROVE Quiet(r) \/ (~Fresh(r) /\ ~Refused(r))
  BY <1>4, <1>6, <1>7, <1>8 DEF Quiet, Asked
<1> QED
  BY <1>6, <1>9, AskedKeeps

\* A connection is registered: the work of the others is done.
LEMMA ActivateAsked ==
  ASSUME DispatchInv, RejectInv, PromptServer, NEW c \in Conns, Activate(c) PROVE RejectInv'
<1>0. binding \in [Conns -> Bindings] /\ binding[c] \in Bindings
  BY BindingTypes DEF DispatchInv, Types, ServerTypes
<1>1. /\ binding[c].side = "open" /\ queued = {} /\ reg' = c /\ grace' = {}
      /\ \A d \in Conns : Closed(d) => binding[d].work = <<>>
      /\ UNCHANGED <<expiring, queued, startOps, stopDone, cur, nodeTodo, s2n, n2s>>
      /\ UNCHANGED <<run, reason, confirmed>>
  BY DEF Activate, SetComputerOnline, runVars, nodeVars, netVars, Closed
<1>2. /\ reg = 0 /\ c # 0 /\ \A r \in Runs, d \in Conns : StartFrom(r, d) => Closed(d)
      /\ \A d \in Conns : d # c => binding[d].side \notin {"active", "ready"}
  BY <1>1, OneOpen DEF RejectInv
<1>3. ASSUME NEW d \in Conns
      PROVE  /\ binding'[d].work = binding[d].work /\ binding'[d].resume = binding[d].resume
             /\ binding'[d].side = IF d = c THEN "active" ELSE binding[d].side
             /\ \A r \in Runs : AskedOf(binding'[d], r) => AskedOf(binding[d], r) \/ r \in grace
  BY <1>0 DEF Activate, AskedOf, Bindings
<1>4. ASSUME NEW d \in Conns
      PROVE  /\ Closed(d)' <=> Closed(d)
             /\ \A r \in Runs : StartFrom(r, d)' => StartFrom(r, d)
  BY <1>1, <1>3 DEF Closed, StartFrom, RejectedOn
<1>5. InOrder'
  <2>1. ASSUME NEW a \in Conns, NEW d \in Conns, a < d, binding'[d].side # "none" PROVE Closed(a)'
    BY <1>1, <1>3, <1>4, <2>1 DEF RejectInv, InOrder
  <2>2. ASSUME NEW d \in Conns
        PROVE  /\ binding'[d].side \in {"active", "ready"} => reg' = d
               /\ Closed(d)' => binding'[d].resume = {} /\ (binding'[d].work # <<>> => reg' = 0)
               /\ n2s'[d] # <<>> => binding'[d].side \in {"open", "active", "ready"}
               /\ cur' = d => binding'[d].side # "none"
               /\ \A f \in ToSet(binding'[d].work) : f.op = "startAck" => f.status = "rejected"
               /\ \A r \in Runs : StartFrom(r, d)' => Closed(d)' \/ reg' = d
    <3>1. binding'[d].side \in {"active", "ready"} => reg' = d
      BY <1>1, <1>2, <1>3
    <3>2. Closed(d)' => binding'[d].resume = {} /\ (binding'[d].work # <<>> => reg' = 0)
      BY <1>1, <1>3, <1>4 DEF RejectInv, InOrder
    <3>3. /\ n2s'[d] # <<>> => binding'[d].side \in {"open", "active", "ready"}
          /\ cur' = d => binding'[d].side # "none"
          /\ \A f \in ToSet(binding'[d].work) : f.op = "startAck" => f.status = "rejected"
      BY <1>1, <1>3 DEF RejectInv, InOrder
    <3>4. \A r \in Runs : StartFrom(r, d)' => Closed(d)' \/ reg' = d
      BY <1>2, <1>4
    <3> QED
      BY <3>1, <3>2, <3>3, <3>4
  <2> QED
    BY <2>1, <2>2 DEF InOrder
<1>6. ASSUME NEW r \in Runs PROVE Unasked(r)'
  <2>1. Fresh(r)' => Fresh(r)
    BY <1>1, <1>4 DEF Fresh
  <2>2. Asked(r)' => Asked(r) \/ r \in grace
    BY <1>1, <1>3 DEF Asked
  <2>3. ASSUME NEW d \in Conns, RejectOf(r) \in ToSet(binding'[d].work) PROVE FALSE
    BY <1>2, <1>3, <2>3, <1>1, NoElems DEF StartFrom, RejectedOn
  <2>4. ~Refused(r)'
    BY <2>3 DEF Refused
  <2> QED
    BY <1>1, <2>1, <2>2, <2>4 DEF RejectInv, Unasked
<1> QED
  BY <1>5, <1>6 DEF RejectInv

\* A connection ends: no start comes from an open one any more.
LEMMA CloseAsked ==
  ASSUME DispatchInv, RejectInv, PromptServer, NEW c \in Conns, ServerClose(c) PROVE RejectInv'
<1>0. /\ binding \in [Conns -> Bindings] /\ binding[c] \in Bindings /\ n2s \in [Conns -> Seq(Frames)]
      /\ c # 0
  BY BindingTypes, OneOpen DEF DispatchInv, Types, ServerTypes, NetTypes, ServerClose, RejectInv
<1>1. /\ binding[c].side \in {"open", "active", "ready"} /\ cur # c /\ queued = {}
      /\ binding' = [binding EXCEPT ![c] = ClosedBinding(binding[c])]
      /\ n2s' = [n2s EXCEPT ![c] = <<>>]
      /\ \/ reg = c /\ reg' = 0 /\ grace' = ActiveRuns
         \/ reg # c /\ reg' = reg /\ grace' = grace
      /\ UNCHANGED <<expiring, queued, startOps, stopDone, cur, nodeTodo, s2n>>
      /\ UNCHANGED <<run, reason, confirmed>>
  BY DEF ServerClose, SetComputerOffline, runVars, storeVars, nodeVars
<1>2. /\ reg \in {0, c} /\ reg' = 0
      /\ \A r \in Runs, d \in Conns : StartFrom(r, d) => Closed(d) \/ d = c
      /\ \A d \in Conns : d # c => binding[d].side \notin {"active", "ready"}
  BY <1>1, OneOpen, <1>0 DEF RejectInv, InOrder
<1>3. ASSUME NEW d \in Conns
      PROVE  /\ binding'[d].work = binding[d].work /\ binding'[d].resume \subseteq binding[d].resume
             /\ d = c => binding'[d].resume = {} /\ n2s'[d] = <<>>
             /\ d # c => n2s'[d] = n2s[d]
             /\ binding'[d].side = IF d = c THEN "closed" ELSE binding[d].side
             /\ \A r \in Runs : AskedOf(binding'[d], r) => AskedOf(binding[d], r)
  <2>1. binding'[d] = IF d = c THEN ClosedBinding(binding[c]) ELSE binding[d]
    BY <1>0, <1>1
  <2>2. PICK b : b = ClosedBinding(binding[c])
    OBVIOUS
  <2>3. /\ b.side = "closed" /\ b.work = binding[c].work /\ b.wait \subseteq binding[c].wait
        /\ b.snap = {} /\ b.todo = {} /\ b.resume = {} /\ b.reconcile = {}
    BY <2>2 DEF ClosedBinding, NewBinding
  <2>4. n2s'[d] = IF d = c THEN <<>> ELSE n2s[d]
    BY <1>0, <1>1
  <2> QED
    BY <2>1, <2>2, <2>3, <2>4 DEF AskedOf
<1>4. ASSUME NEW d \in Conns
      PROVE  /\ Closed(d)' <=> Closed(d) \/ d = c
             /\ \A r \in Runs : StartFrom(r, d)' => StartFrom(r, d)
  BY <1>3, NoElems, <1>1 DEF Closed, StartFrom, RejectedOn
<1>5. InOrder'
  BY <1>1, <1>3, <1>4, <1>2 DEF RejectInv, InOrder
<1>6. ASSUME NEW r \in Runs PROVE Unasked(r)'
  <2>1. Fresh(r)' => run[r] = None
    BY <1>1, <1>2, <1>4 DEF Fresh
  <2>2. run[r] = None => Fresh(r) /\ r \notin ActiveRuns /\ run[r] # "failed"
    BY StoreAssumption DEF Fresh, ActiveRuns, Active, StoreAssumption, RunActive, RunStatus
  <2>3. (Asked(r)' => Asked(r)) /\ (Refused(r)' => Refused(r))
    BY <1>1, <1>3 DEF Asked, Refused
  <2> QED
    BY <1>1, <2>1, <2>2, <2>3 DEF RejectInv, Unasked
<1> QED
  BY <1>5, <1>6 DEF RejectInv

LEMMA RestartAsked == ASSUME DispatchInv, RejectInv, ServerRestart PROVE RejectInv'
<1>1. /\ reg' = 0 /\ grace' = ActiveRuns /\ expiring' = {} /\ queued' = {}
      /\ startOps' = {} /\ stopDone' = {} /\ UNCHANGED <<cur, nodeTodo, s2n>>
      /\ UNCHANGED <<run, reason, confirmed>>
  BY DEF ServerRestart, SetComputerOffline, runVars, nodeVars
<1>2. ASSUME NEW d \in Conns
      PROVE  /\ binding'[d].work = <<>> /\ binding'[d].resume = {} /\ n2s'[d] = <<>>
             /\ binding'[d].side = IF binding[d].side = "none" THEN "none" ELSE "closed"
             /\ \A r \in Runs : ~AskedOf(binding'[d], r)
  BY NoElems DEF ServerRestart, NewBinding, AskedOf
<1>3. ASSUME NEW d \in Conns
      PROVE  /\ Closed(d)' <=> binding[d].side # "none"
             /\ \A r \in Runs : StartFrom(r, d)' => StartFrom(r, d) /\ binding[d].side # "none"
             /\ \A r \in Runs : RejectOf(r) \notin ToSet(binding'[d].work)
  <2>1. reg = d => binding[d].side # "none"
    BY DispatchAssumption DEF DispatchAssumption, Conns, DispatchInv, InStepHere
  <2>2. \A r \in Runs : StartFrom(r, d) => binding[d].side # "none"
    BY <2>1 DEF RejectInv, InOrder, Closed
  <2>3. \A r \in Runs : StartFrom(r, d)' => StartFrom(r, d)
    BY <1>1, <1>2, NoElems DEF StartFrom, RejectedOn
  <2> QED
    BY <1>2, <2>2, <2>3, NoElems DEF Closed
<1>4. InOrder'
  BY <1>2, <1>3, <1>1, NoElems DEF RejectInv, InOrder, Closed
<1>5. ASSUME NEW r \in Runs PROVE Unasked(r)'
  <2>1. Fresh(r)' => run[r] = None
    BY <1>1, <1>3 DEF Fresh
  <2>2. run[r] = None => Fresh(r) /\ r \notin ActiveRuns /\ run[r] # "failed"
    BY StoreAssumption DEF Fresh, ActiveRuns, Active, StoreAssumption, RunActive, RunStatus
  <2>3. (Asked(r)' => Asked(r)) /\ ~Refused(r)'
    BY <1>1, <1>2, <1>3 DEF Asked, Refused
  <2> QED
    BY <1>1, <2>1, <2>2, <2>3 DEF RejectInv, Unasked
<1> QED
  BY <1>4, <1>5 DEF RejectInv

-------------------------------------------------------------------------------
(* Transactions on a run *)

\* A handler touches the rows of its run only.
LEMMA HandledRun ==
  ASSUME RowsInv, NEW r \in Runs, RunHandler(r)
  PROVE  /\ \A x \in Runs \ {r} : run'[x] = run[x] /\ reason'[x] = reason[x]
         /\ confirmed' \subseteq confirmed \cup {r}
<1>1. RowsOK /\ RunOutcome(r)
  BY HandlerOutcome DEF RowsInv, RowsOK
<1>2. confirmed' \subseteq confirmed \cup {r}
  BY <1>1 DEF RunOutcome, Starts, Completes, Fails, Cancels, StaysSettled, OnlyReceipt, runVars
<1> QED
  BY <1>1, <1>2, OutcomeRows

\* What it makes known of that run is all there is to look at.
LEMMA HandlerKeeps ==
  ASSUME RowsInv, DispatchInv, RejectInv, NEW r \in Runs, RunHandler(r), Calm,
         grace' \cup expiring' \subseteq grace \cup expiring,
         \A x \in Runs \ {r} : Asked(x)' => Asked(x) \/ x \in confirmed',
         Quiet(r) \/ (~Fresh(r) /\ ~Refused(r)) \/ Unasked(r)'
  PROVE  RejectInv'
BY HandledRun, CalmStep, RunsKeep DEF Asked, Quiet, RejectInv, Unasked

\* The grace window of r is over.
LEMMA ExpireAsked ==
  ASSUME RowsInv, DispatchInv, RejectInv, NEW r \in Runs, ExpireRun(r) PROVE RejectInv'
<1>0. RowTypes /\ RowsStay
  BY DisconnectRows DEF ExpireRun, DispatchInv, Types
<1>1. /\ r \in expiring /\ FailRunDaemonDisconnect(r, FALSE) /\ RunHandler(r)
      /\ expiring' \subseteq expiring /\ UNCHANGED <<binding, reg, grace, queued, startOps, stopDone>>
      /\ UNCHANGED <<nodeVars, netVars>>
  BY DEF ExpireRun, RunHandler
<1>2. /\ Calm
      /\ \A x \in Runs : Asked(x)' => \/ Asked(x) \/ x \in confirmed'
                                      \/ <<x, "reconcile">> \in stopDone'
  BY <1>0, <1>1, StoreCalm DEF RowsStay
<1>3. ~Fresh(r) /\ Unasked(r)
  BY <1>1 DEF RejectInv, Unasked
<1>4. /\ confirmed' = confirmed
      /\ run'[r] = "failed" => \/ run[r] = "failed" /\ reason'[r] = reason[r]
                               \/ reason'[r] = "daemon_disconnect"
  BY <1>1 DEF FailRunDaemonDisconnect, runVars, RowsInv, TypeOK
<1>5. Asked(r)' => Asked(r)
  BY <1>1, <1>2, <1>4 DEF Asked
<1>6. (Fresh(r)' => Fresh(r)) /\ (Refused(r)' => Refused(r) \/ Fresh(r))
  BY <1>2, CalmStep DEF RejectInv
<1>7. Unasked(r)'
  BY <1>3, <1>4, <1>5, <1>6 DEF Unasked
<1>8. \A x \in Runs \ {r} : Asked(x)' => Asked(x) \/ x \in confirmed'
  BY <1>1, <1>2 DEF Asked
<1> QED
  BY <1>1, <1>2, <1>7, <1>8, HandlerKeeps

\* A caller goes on after its stop.
LEMMA AfterStopAsked ==
  ASSUME RowsInv, DispatchInv, RejectInv, NEW r \in Runs, NEW intent \in Intents,
         AfterStop(r, intent)
  PROVE  RejectInv'
<1>0. RowTypes
  BY DEF DispatchInv, Types
<1>1. /\ <<r, intent>> \in stopDone /\ stopDone' \subseteq stopDone
      /\ UNCHANGED <<binding, reg, grace, expiring, queued, startOps, nodeVars, netVars>>
      /\ \/ intent = "reconcile" /\ FailRunDaemonDisconnect(r, TRUE)
         \/ intent = "cancel" /\ CancelRunCommit(r)
         \/ intent = "cancel" /\ UNCHANGED storeVars
  BY DEF AfterStop, Intents
<1>2. RowsStay
  BY <1>0, <1>1, DisconnectRows, CancelRows, QuietRows
<1>3. /\ Calm
      /\ \A x \in Runs : Asked(x)' => \/ Asked(x) \/ x \in confirmed'
                                      \/ <<x, "reconcile">> \in stopDone'
  BY <1>1, <1>2, StoreCalm DEF RowsStay
<1>4. \A x \in Runs : Asked(x)' => Asked(x) \/ x \in confirmed'
  BY <1>1, <1>3 DEF Asked
<1>5. CASE intent = "reconcile" /\ FailRunDaemonDisconnect(r, TRUE)
  BY <1>1, <1>5, <1>3, <1>4, HandlerKeeps DEF Asked, RunHandler, RejectInv, Unasked
<1>6. CASE CancelRunCommit(r)
  <2>1. RunHandler(r) /\ confirmed' = confirmed /\ run'[r] # "failed"
    BY <1>0, <1>6, RunEdges DEF CancelRunCommit, RowTypes, RunHandler
  <2>2. Quiet(r)
    BY <1>1, <1>4, <2>1 DEF Quiet, Asked
  <2> QED
    BY <1>1, <1>3, <1>4, <2>1, <2>2, HandlerKeeps
<1>7. CASE UNCHANGED storeVars
  BY <1>7, <1>1, <1>4, <1>3, QuietKeeps DEF storeVars, runVars, Quiet, Asked
<1> QED
  BY <1>1, <1>5, <1>6, <1>7

\* One frame of the work is taken; the run of a lost resume is looked for.
LEMMA WorkCalm ==
  ASSUME DispatchInv, RejectInv, NEW c \in Conns, binding[c].work # <<>>,
         NEW R \in SUBSET Runs, NEW b, b = [binding[c] EXCEPT !.work = Tail(@), !.reconcile = @ \cup R],
         binding' = [binding EXCEPT ![c] = b],
         NEW g \in Frames, g.op # "start", s2n' = s2n \/ s2n' = Sent(c, g),
         UNCHANGED <<reg, queued, startOps, nodeVars, n2s>>, RowsStay
  PROVE  /\ Calm
         /\ \A x \in Runs : Asked(x)' => \/ Asked(x) \/ x \in R \/ x \in confirmed'
                                         \/ <<x, "reconcile">> \in stopDone'
<1>0. NetTypes /\ binding[c] \in Bindings /\ binding[c].work \in Seq(Frames)
  BY BindingTypes DEF DispatchInv, Types
<1>1. Tail(binding[c].work) \in Seq(Frames) /\ ToSet(Tail(binding[c].work)) \subseteq ToSet(binding[c].work)
  BY <1>0, TailElems
<1>2. /\ b \in Bindings /\ b.work = Tail(binding[c].work) /\ b.side = binding[c].side
      /\ b.resume = binding[c].resume /\ b.reconcile = binding[c].reconcile \cup R
      /\ b.snap = binding[c].snap /\ b.todo = binding[c].todo /\ b.wait = binding[c].wait
  BY <1>0, <1>1 DEF Bindings
<1>3. /\ \A d \in Conns, r \in Runs : StartOf(r) \in ToSet(s2n'[d]) => StartOf(r) \in ToSet(s2n[d])
      /\ \A d \in Conns : ToSet(n2s'[d]) \subseteq ToSet(n2s[d]) /\ (n2s'[d] # <<>> => n2s[d] # <<>>)
  BY <1>0, SendsNoStart
<1>4. OnlyRejects(binding[c].work, b.work)
  BY <1>1, <1>2 DEF OnlyRejects
<1>5. \A x \in Runs : AskedOf(b, x) => AskedOf(binding[c], x) \/ x \in R
  BY <1>1, <1>2 DEF AskedOf
<1>6. \A r \in Runs : RejectOf(r) \in ToSet(b.work) => RejectOf(r) \in ToSet(binding[c].work)
  BY <1>1, <1>2
<1>7. \A r \in Runs : run'[r] = None => run[r] = None
  BY DEF RowsStay
<1>8. /\ Calm
      /\ \A r \in Runs : Asked(r)' => \/ Asked(r) \/ AskedOf(b, r) \/ r \in confirmed'
                                      \/ <<r, "reconcile">> \in stopDone'
  BY <1>2, <1>3, <1>4, <1>6, <1>7, BindingCalm
<1> QED
  BY <1>5, <1>8 DEF Asked

\* A lost resume, or one that found nothing, was asked for.
LEMMA LostRunAsked ==
  ASSUME RowsInv, DispatchInv, RejectInv, NEW c \in Conns,
         WorkResumeRejected(c) \/ WorkResumeTimeout(c)
  PROVE  RejectInv'
<1>0. Types /\ RowTypes /\ binding \in [Conns -> Bindings] /\ binding[c] \in Bindings
  BY BindingTypes DEF DispatchInv, Types, ServerTypes
<1>1. PICK f : f = Head(binding[c].work)
  OBVIOUS
<1>2. PICK r : r = f.run
  OBVIOUS
<1>3. /\ binding[c].work # <<>> /\ f \in ToSet(binding[c].work) /\ r \in Runs
      /\ f.op \in {"resumeAck", "resumeTimeout"}
  BY <1>0, <1>1, <1>2, WorkHead DEF WorkResumeRejected, WorkResumeTimeout, Working
<1>4. /\ \E e \in BOOLEAN : FailRunDaemonDisconnect(r, e)
      /\ UNCHANGED <<reg, grace, expiring, queued, startOps, stopDone, nodeVars, n2s, s2n>>
  BY <1>1, <1>2 DEF WorkResumeRejected, WorkResumeTimeout, WorkUnchanged
<1>5. RowsStay /\ RunHandler(r)
  BY <1>0, <1>3, <1>4, DisconnectRows DEF RunHandler
<1>6. \E R \in {{}, {r}} :
        binding' = [binding EXCEPT ![c] = [binding[c] EXCEPT !.work = Tail(@), !.reconcile = @ \cup R]]
  <2>1. CASE binding' = WorkDone(c)
    <3>1. [binding[c] EXCEPT !.work = Tail(@), !.reconcile = @ \cup {}] = [binding[c] EXCEPT !.work = Tail(@)]
      BY <1>0 DEF Bindings
    <3> QED
      BY <1>0, <2>1, <3>1 DEF WorkDone
  <2>2. CASE binding' = [WorkDone(c) EXCEPT ![c].reconcile = @ \cup {r}]
    <3> DEFINE t == [binding[c] EXCEPT !.work = Tail(@)]
    <3>1. binding' = [binding EXCEPT ![c] = [t EXCEPT !.reconcile = @ \cup {r}]]
      BY <1>0, <2>2 DEF WorkDone
    <3>2. [t EXCEPT !.reconcile = @ \cup {r}]
            = [binding[c] EXCEPT !.work = Tail(@), !.reconcile = @ \cup {r}]
      BY <1>0 DEF Bindings
    <3> QED
      BY <3>1, <3>2
  <2> QED
    BY <1>1, <1>2, <2>1, <2>2 DEF WorkResumeRejected, WorkResumeTimeout
<1>7. PICK R \in {{}, {r}} :
        binding' = [binding EXCEPT ![c] = [binding[c] EXCEPT !.work = Tail(@), !.reconcile = @ \cup R]]
  BY <1>6
<1>8. PICK b : b = [binding[c] EXCEPT !.work = Tail(@), !.reconcile = @ \cup R]
  OBVIOUS
<1>9. PICK g \in Frames : g.op # "start"
  BY <1>3, NoFrame
<1>10. R \in SUBSET Runs
  BY <1>3
<1>11. /\ Calm
       /\ \A x \in Runs : Asked(x)' => \/ Asked(x) \/ x \in R \/ x \in confirmed'
                                       \/ <<x, "reconcile">> \in stopDone'
  BY <1>3, <1>4, <1>5, <1>7, <1>8, <1>9, <1>10, WorkCalm
<1>12. \A x \in Runs \ {r} : Asked(x)' => Asked(x) \/ x \in confirmed'
  BY <1>4, <1>11 DEF Asked
<1>13. Asked(r)
  BY <1>2, <1>3 DEF Asked, AskedOf
<1>14. ~Fresh(r) /\ ~Refused(r)
  BY <1>3, <1>13 DEF RejectInv, Unasked
<1>15. grace' \cup expiring' \subseteq grace \cup expiring
  BY <1>4
<1> QED
  BY <1>3, <1>5, <1>11, <1>12, <1>14, <1>15, HandlerKeeps

\* The head of the work is a rejection: its start is nowhere else.
LEMMA RejectionAlone ==
  ASSUME DispatchInv, RejectInv, NEW c \in Conns, Working(c, "startAck"),
         NEW r, r = Head(binding[c].work).run
  PROVE  /\ r \in Runs /\ Head(binding[c].work) = RejectOf(r) /\ Refused(r)
         /\ RejectOf(r) \notin ToSet(Tail(binding[c].work))
         /\ \A d \in Conns : StartFrom(r, d) => d = c
         /\ <<r, c>> \notin startOps /\ StartOf(r) \notin ToSet(s2n[c])
         /\ <<c, StartOf(r)>> \notin nodeTodo /\ RejectOf(r) \notin ToSet(n2s[c])
         /\ run[r] # None /\ r \notin queued /\ spawned[r] = 0
<1>0. Types /\ OnePlace /\ OneCopy /\ binding[c].work \in Seq(Frames)
  BY BindingTypes DEF DispatchInv
<1>1. PICK f : f = Head(binding[c].work)
  OBVIOUS
<1>2. /\ binding[c].work # <<>> /\ f \in Frames /\ f \in ToSet(binding[c].work) /\ r \in Runs
      /\ f.op = "startAck" /\ r = f.run
  BY <1>0, <1>1, WorkHead DEF Working
<1>3. f = RejectOf(r)
  BY <1>2 DEF RejectInv, InOrder, Frames, RejectOf, Frame
<1>4. RejectedOn(r, c) /\ Rejected(r) /\ Refused(r)
  BY <1>2, <1>3 DEF RejectedOn, Rejected, Refused
<1>5. RejectOf(r) \notin ToSet(Tail(binding[c].work)) /\ RejectOf(r) \notin ToSet(n2s[c])
  BY <1>0, <1>2, <1>3, <1>1, TailElems DEF OneCopy
<1>6. /\ run[r] # None /\ r \notin queued /\ ~Dispatching(r) /\ ~OnWire(r) /\ ~Starting(r)
      /\ spawned[r] = 0
  BY <1>0, <1>2, <1>4 DEF OnePlace
<1>7. \A d \in Conns : StartFrom(r, d) => d = c
  BY <1>0, <1>2, <1>4, <1>6 DEF StartFrom, OneCopy, Dispatching, OnWire, Starting
<1> QED
  BY <1>1, <1>2, <1>3, <1>4, <1>5, <1>6, <1>7 DEF Dispatching, OnWire, Starting

\* The store takes a rejection as RunStore has it.
LEMMA RejectsAsStored ==
  ASSUME RowsInv, DispatchInv, RejectInv, NEW c \in Conns, WorkStartRejected(c),
         NEW r, r = Head(binding[c].work).run
  PROVE  NodeRejectsStart(r) /\ RunHandler(r)
<1>1. r \in Runs /\ Refused(r) /\ spawned[r] = 0
  BY RejectionAlone DEF WorkStartRejected
<1>2. \A q \in Seqs : ~IsDuplicate(r, q)
  BY <1>1 DEF DispatchInv, EventsFollow, Streamed, IsDuplicate
<1>3. run[r] = "failed" => UnconfirmedDisconnect(r)
  BY <1>1 DEF RejectInv, Unasked, Asked, UnconfirmedDisconnect
<1> QED
  BY <1>1, <1>2, <1>3 DEF NodeRejectsStart, RunHandler, WorkStartRejected

LEMMA RejectionAsked ==
  ASSUME RowsInv, DispatchInv, RejectInv, NEW c \in Conns, WorkStartRejected(c) PROVE RejectInv'
<1>0. Types /\ RowTypes /\ binding \in [Conns -> Bindings] /\ binding[c] \in Bindings
  BY BindingTypes DEF DispatchInv, Types, ServerTypes
<1>1. PICK r : r = Head(binding[c].work).run
  OBVIOUS
<1>2. Working(c, "startAck") /\ RunHandler(r)
  BY <1>1, RejectsAsStored DEF WorkStartRejected
<1>3. /\ r \in Runs /\ binding[c].work # <<>>
      /\ RejectOf(r) \notin ToSet(Tail(binding[c].work))
      /\ \A d \in Conns : StartFrom(r, d) => d = c
      /\ <<r, c>> \notin startOps /\ StartOf(r) \notin ToSet(s2n[c])
      /\ <<c, StartOf(r)>> \notin nodeTodo /\ RejectOf(r) \notin ToSet(n2s[c])
      /\ run[r] # None /\ r \notin queued
  BY <1>1, <1>2, RejectionAlone DEF Working
<1>4. PICK b : b = [binding[c] EXCEPT !.work = Tail(@), !.reconcile = @ \cup {}]
  OBVIOUS
<1>5. b = [binding[c] EXCEPT !.work = Tail(@)] /\ b.work = Tail(binding[c].work)
  BY <1>0, <1>4 DEF Bindings
<1>6. /\ binding' = [binding EXCEPT ![c] = b] /\ FailRunStart(r)
      /\ UNCHANGED <<reg, grace, expiring, queued, startOps, stopDone, nodeVars, n2s, s2n>>
  BY <1>0, <1>1, <1>5 DEF WorkStartRejected, WorkUnchanged, WorkDone
<1>7. RowsStay
  BY <1>0, <1>3, <1>6, RejectRows
<1>8. PICK g \in Frames : g.op # "start"
  BY <1>3, NoFrame
<1>9. {} \in SUBSET Runs
  OBVIOUS
<1>10. /\ Calm
       /\ \A x \in Runs : Asked(x)' => \/ Asked(x) \/ x \in {} \/ x \in confirmed'
                                       \/ <<x, "reconcile">> \in stopDone'
  BY <1>3, <1>4, <1>6, <1>7, <1>8, <1>9, WorkCalm
<1>11. \A x \in Runs \ {r} : Asked(x)' => Asked(x) \/ x \in confirmed'
  BY <1>6, <1>10 DEF Asked
<1>12. ASSUME NEW d \in Conns PROVE ~StartFrom(r, d)' /\ RejectOf(r) \notin ToSet(binding'[d].work)
  <2>1. binding'[d] = IF d = c THEN b ELSE binding[d]
    BY <1>0, <1>6
  <2>2. UNCHANGED <<startOps, nodeTodo, n2s, s2n>>
    BY <1>6 DEF nodeVars
  <2>3. CASE d = c
    BY <1>3, <1>5, <2>1, <2>2, <2>3 DEF StartFrom, RejectedOn
  <2>4. CASE d # c
    BY <1>3, <2>1, <2>2, <2>4 DEF StartFrom, RejectedOn
  <2> QED
    BY <2>3, <2>4
<1>13. run'[r] # None /\ r \notin queued'
  BY <1>3, <1>6, <1>7 DEF RowsStay
<1>14. ~Fresh(r)' /\ ~Refused(r)'
  BY <1>12, <1>13 DEF Fresh, Refused
<1>15. Unasked(r)'
  BY <1>14 DEF Unasked
<1>16. grace' \cup expiring' \subseteq grace \cup expiring
  BY <1>6
<1> QED
  BY <1>2, <1>3, <1>10, <1>11, <1>15, <1>16, HandlerKeeps

\* The head of the work is an event: the start of its run is over.
LEMMA EventHead ==
  ASSUME DispatchInv, RejectInv, NEW c \in Conns, Working(c, "event"),
         NEW f, f = Head(binding[c].work)
  PROVE  /\ f.run \in Runs /\ f.n \in Seqs /\ f.status \in Phases
         /\ f.status \in {"completed", "cancelled"} => StartAccepted(f.run)
         /\ ~Fresh(f.run) /\ ~Refused(f.run)
<1>0. Types /\ OnePlace
  BY DEF DispatchInv
<1>1. f \in Frames /\ f \in ToSet(binding[c].work) /\ f.run \in Runs /\ f.op = "event"
  BY <1>0, WorkHead DEF Working
<1>2. f.n \in Seqs /\ f.status \in Phases
  BY <1>1, DispatchAssumption DEF Frames, DispatchAssumption
<1>3. EventOK(f)
  BY <1>1 DEF DispatchInv, EventsFollow, EventsUp
<1>4. PICK r \in Runs : r = f.run
  BY <1>1
<1>5. /\ run[r] # None /\ r \notin queued /\ ~Dispatching(r) /\ ~OnWire(r) /\ ~Starting(r)
      /\ ~Rejected(r)
  BY <1>0, <1>1, <1>3, <1>4 DEF OnePlace, EventOK
<1>6. ~Fresh(r) /\ ~Refused(r)
  BY <1>5 DEF Fresh, Refused, StartFrom, Dispatching, OnWire, Starting, Rejected, RejectedOn
<1> QED
  BY <1>1, <1>2, <1>3, <1>4, <1>6 DEF EventOK

\* The store takes an event as RunStore has it, or not at all.
LEMMA EventStored ==
  ASSUME DispatchInv, RejectInv, NEW c \in Conns, WorkEvent(c)
  PROVE  UNCHANGED storeVars \/ \E r \in Runs : RunHandler(r)
<1>1. PICK f : f = Head(binding[c].work)
  OBVIOUS
<1>2. /\ f.run \in Runs /\ f.n \in Seqs /\ f.status \in Phases
      /\ f.status \in {"completed", "cancelled"} => StartAccepted(f.run)
  BY <1>1, EventHead DEF WorkEvent
<1>3. IngestRunEvent(f.run, f.n, f.status) \/ UNCHANGED storeVars
  BY <1>1 DEF WorkEvent
<1>4. IngestRunEvent(f.run, f.n, f.status) => NodeDelivers(f.run, f.n, f.status)
  BY <1>2 DEF NodeDelivers
<1> QED
  BY <1>2, <1>3, <1>4 DEF RunHandler, Bodies

LEMMA EventAsked ==
  ASSUME RowsInv, DispatchInv, RejectInv, NEW c \in Conns, WorkEvent(c) PROVE RejectInv'
<1>0. Types /\ RowTypes /\ binding \in [Conns -> Bindings] /\ binding[c] \in Bindings
  BY BindingTypes DEF DispatchInv, Types, ServerTypes
<1>1. PICK f : f = Head(binding[c].work)
  OBVIOUS
<1>2. /\ f.run \in Runs /\ f.n \in Seqs /\ f.status \in Phases /\ f.n \in 0..2
      /\ f.status \in {"completed", "cancelled"} => StartAccepted(f.run)
      /\ ~Fresh(f.run) /\ ~Refused(f.run) /\ binding[c].work # <<>>
  BY <1>0, <1>1, WorkHead, EventHead DEF WorkEvent, Working, Frames
<1>3. PICK b : b = [binding[c] EXCEPT !.work = Tail(@), !.reconcile = @ \cup {}]
  OBVIOUS
<1>4. b = [binding[c] EXCEPT !.work = Tail(@)]
  BY <1>0, <1>3 DEF Bindings
<1>5. /\ binding' = [binding EXCEPT ![c] = b]
      /\ UNCHANGED <<reg, grace, expiring, queued, startOps, stopDone, nodeVars, n2s>>
      /\ IngestRunEvent(f.run, f.n, f.status) \/ UNCHANGED storeVars
  BY <1>0, <1>1, <1>4 DEF WorkEvent, WorkUnchanged, WorkDone
<1>6. \E g \in Frames : g.op # "start" /\ s2n' = Sent(c, g)
  <2>1. \E v \in {"accepted", "rejected"} : s2n' = Sent(c, Frame("receipt", f.run, f.n, v))
    BY <1>1 DEF WorkEvent
  <2>2. PICK v \in {"accepted", "rejected"} : s2n' = Sent(c, Frame("receipt", f.run, f.n, v))
    BY <2>1
  <2>3. PICK g : g = Frame("receipt", f.run, f.n, v)
    OBVIOUS
  <2>4. g \in Frames /\ g.op # "start"
    BY <1>2, <2>3, FrameKinds DEF Frame
  <2> QED
    BY <2>2, <2>3, <2>4
<1>7. RowsStay
  BY <1>0, <1>2, <1>5, IngestRows, QuietRows
<1>8. PICK g \in Frames : g.op # "start" /\ s2n' = Sent(c, g)
  BY <1>6
<1>9. {} \in SUBSET Runs
  OBVIOUS
<1>10. /\ Calm
       /\ \A x \in Runs : Asked(x)' => \/ Asked(x) \/ x \in {} \/ x \in confirmed'
                                       \/ <<x, "reconcile">> \in stopDone'
  BY <1>2, <1>3, <1>5, <1>7, <1>8, <1>9, WorkCalm
<1>11. \A x \in Runs : Asked(x)' => Asked(x) \/ x \in confirmed'
  BY <1>5, <1>10 DEF Asked
<1>12. grace' \cup expiring' \subseteq grace \cup expiring
  BY <1>5
<1>13. CASE IngestRunEvent(f.run, f.n, f.status)
  <2>1. PICK r \in Runs : r = f.run
    BY <1>2
  <2>2. RunHandler(r)
    BY <1>2, <1>13, <2>1 DEF RunHandler, NodeDelivers, Bodies
  <2>3. \A x \in Runs \ {r} : Asked(x)' => Asked(x) \/ x \in confirmed'
    BY <1>11
  <2> QED
    BY <1>2, <1>10, <1>12, <2>1, <2>2, <2>3, HandlerKeeps
<1>14. CASE UNCHANGED storeVars
  BY <1>14, <1>11, <1>12, <1>10, QuietKeeps DEF storeVars, runVars, Quiet, Asked
<1> QED
  BY <1>5, <1>13, <1>14

-------------------------------------------------------------------------------
(* The steps of the two programs are steps of the store, or none *)

\* What the programs do to the store.
StoreMove ==
  \/ TaskStep
  \/ \E t \in Tasks, r \in Runs : AssignTask(t, r)
  \/ \E r \in Runs : RunHandler(r)
  \/ \E c \in Computers : SetComputerOnline(c) \/ SetComputerOffline(c)
  \/ UNCHANGED storeVars

LEMMA MoveIsStep ==
  ASSUME StoreMove PROVE [Next]_storeVars
  BY DEF StoreMove, TaskStep, RunHandler, Next

LEMMA ServerMoves ==
  ASSUME RowsInv, DispatchInv, RejectInv, Runs # {}, NEW c \in Conns, ServerStep(c)
  PROVE  StoreMove
<1>1. CASE Activate(c) \/ ServerClose(c)
  <2>1. ComputerOf[CHOOSE r \in Runs : TRUE] \in Computers
    BY StoreAssumption DEF StoreAssumption
  <2>2. PICK k : k = ComputerOf[CHOOSE r \in Runs : TRUE]
    OBVIOUS
  <2>3. SetComputerOnline(k) \/ SetComputerOffline(k) \/ UNCHANGED storeVars
    BY <1>1, <2>2 DEF Activate, ServerClose
  <2> QED
    BY <2>1, <2>2, <2>3 DEF StoreMove
<1>2. CASE WorkEvent(c)
  BY <1>2, EventStored DEF StoreMove
<1>3. CASE WorkStartRejected(c)
  <2>1. PICK r : r = Head(binding[c].work).run
    OBVIOUS
  <2>2. RunHandler(r) /\ r \in Runs
    BY <1>3, <2>1, RejectsAsStored, RejectionAlone DEF WorkStartRejected
  <2> QED
    BY <2>2 DEF StoreMove
<1>4. CASE WorkResumeRejected(c) \/ WorkResumeTimeout(c)
  <2>1. PICK r : r = Head(binding[c].work).run
    OBVIOUS
  <2>2. r \in Runs
    BY <1>4, <2>1, WorkHead DEF DispatchInv, WorkResumeRejected, WorkResumeTimeout
  <2>3. \E e \in BOOLEAN : FailRunDaemonDisconnect(r, e)
    BY <1>4, <2>1 DEF WorkResumeRejected, WorkResumeTimeout
  <2> QED
    BY <2>2, <2>3 DEF StoreMove, RunHandler
<1>5. CASE \/ ResumeList(c) \/ Receive(c) \/ WorkStopAck(c)
           \/ \E r \in Runs : \/ SendRunStart(r, c) \/ SendRunResume(c, r)
                              \/ ReconcileSurvivingProcess(c, r)
  BY <1>5 DEF ResumeList, Receive, WorkStopAck, SendRunStart, SendRunResume,
              ReconcileSurvivingProcess, StoreMove
<1> QED
  BY <1>1, <1>2, <1>3, <1>4, <1>5 DEF ServerStep

LEMMA DaemonMoves ==
  ASSUME \/ \E r \in Runs : NodeHandler(r) \/ ProcessEnds(r)
         \/ \E c \in Conns : NodeConnect(c) \/ NodeDrop(c) \/ NodeFrame(c)
         \/ NodeRestart
  PROVE  UNCHANGED storeVars
<1>1. CASE \E r \in Runs : NodeHandler(r)
  BY <1>1 DEF NodeHandler, StartFails, StartSucceeds, SendTerminal, OnRunStop, OnRunResume
<1>2. CASE \E r \in Runs : ProcessEnds(r)
  BY <1>2 DEF ProcessEnds, ProcessExit
<1>3. CASE \E c \in Conns : NodeConnect(c) \/ NodeDrop(c) \/ NodeFrame(c)
  BY <1>3 DEF NodeConnect, NodeDrop, NodeFrame, NodeReceive, NodeReceipt
<1>4. CASE NodeRestart
  BY <1>4 DEF NodeRestart
<1> QED
  BY <1>1, <1>2, <1>3, <1>4

LEMMA DispatchMoves ==
  ASSUME RowsInv, DispatchInv, RejectInv, Runs # {}, [DispatchNext]_dispatchVars PROVE StoreMove
<1>1. CASE UNCHANGED dispatchVars
  BY <1>1 DEF dispatchVars, StoreMove
<1>2. CASE UserStep
  BY <1>2 DEF UserStep, StoreMove, TaskStep
<1>3. CASE \E t \in Tasks, r \in Runs : Assign(t, r)
  BY <1>3 DEF Assign, StoreMove
<1>4. ASSUME NEW r \in Runs, CancelRun(r) \/ RunStep(r) PROVE StoreMove
  BY <1>4 DEF CancelRun, OnRunQueued, StoreMove, ExpireRun, RunHandler, AfterStop, RunStep
<1>5. CASE \/ \E r \in Runs : NodeHandler(r) \/ ProcessEnds(r)
           \/ \E c \in Conns : NodeConnect(c) \/ NodeDrop(c) \/ NodeFrame(c)
           \/ NodeRestart
  BY <1>5, DaemonMoves DEF StoreMove
<1>6. CASE \E c \in Conns : ServerStep(c)
  BY <1>6, ServerMoves
<1>7. CASE \E c \in Conns, r \in Runs : StopTimeout(c, r) \/ ResumeTimeout(c, r)
  BY <1>7 DEF StopTimeout, ResumeTimeout, StoreMove
<1>8. CASE GraceExpire
  BY <1>8 DEF GraceExpire, StoreMove
<1>9. CASE ServerRestart
  <2>1. ComputerOf[CHOOSE r \in Runs : TRUE] \in Computers
    BY StoreAssumption DEF StoreAssumption
  <2>2. PICK k : k = ComputerOf[CHOOSE r \in Runs : TRUE]
    OBVIOUS
  <2>3. SetComputerOffline(k)
    BY <1>9, <2>2 DEF ServerRestart
  <2> QED
    BY <2>1, <2>2, <2>3 DEF StoreMove
<1> QED
  BY <1>1, <1>2, <1>3, <1>4, <1>5, <1>6, <1>7, <1>8, <1>9 DEF DispatchNext

-------------------------------------------------------------------------------
(* The invariant, and what follows from it *)

LEMMA RejectInvInit == DispatchInit => RejectInv
<1> SUFFICES ASSUME DispatchInit PROVE RejectInv
  OBVIOUS
<1>1. /\ run = [r \in Runs |-> None] /\ confirmed = {}
      /\ binding = [c \in Conns |-> NewBinding] /\ reg = 0 /\ cur = 0
      /\ grace = {} /\ expiring = {} /\ queued = {} /\ startOps = {} /\ stopDone = {}
      /\ nodeTodo = {} /\ s2n = [c \in Conns |-> <<>>] /\ n2s = [c \in Conns |-> <<>>]
  BY DEF DispatchInit, Init
<1>2. ASSUME NEW c \in Conns
      PROVE  /\ binding[c].side = "none" /\ binding[c].work = <<>> /\ binding[c].resume = {}
             /\ ToSet(binding[c].work) = {} /\ c # 0
             /\ \A r \in Runs : ~StartFrom(r, c) /\ ~AskedOf(binding[c], r)
  <2>1. NewBinding.work = <<>> /\ NewBinding.side = "none" /\ NewBinding.resume = {}
    BY DEF NewBinding
  <2>2. \A r \in Runs : ~AskedOf(NewBinding, r)
    BY NoElems DEF NewBinding, AskedOf
  <2> QED
    BY <1>1, <2>1, <2>2, NoElems, DispatchAssumption
       DEF StartFrom, RejectedOn, DispatchAssumption, Conns
<1>3. InOrder
  BY <1>1, <1>2 DEF InOrder, Closed
<1>4. ASSUME NEW r \in Runs PROVE Unasked(r)
  BY <1>1, <1>2, StoreAssumption DEF Asked, Refused, Unasked, StoreAssumption, RunStatus
<1> QED
  BY <1>3, <1>4 DEF RejectInv

LEMMA RejectInvStep ==
  ASSUME OrderedClose, PromptServer, RowsInv, DispatchInv, RejectInv,
         [DispatchNext]_dispatchVars
  PROVE  RejectInv'
<1>1. CASE UNCHANGED dispatchVars
  BY <1>1, DaemonKeeps DEF dispatchVars, nodeVars, netVars, StartFrom, RejectedOn
<1>2. CASE UserStep \/ GraceExpire \/ \E t \in Tasks, r \in Runs : Assign(t, r)
  BY <1>2, UserKeeps
<1>3. ASSUME NEW r \in Runs, CancelRun(r) PROVE RejectInv'
  BY <1>3, StopStepsAsked DEF CancelRun, DispatchInv, Types, ServerTypes
<1>4. ASSUME NEW r \in Runs, RunStep(r) PROVE RejectInv'
  <2>1. CASE OnRunQueued(r)
    <3>1. CASE \E c \in Conns : TRUE
      BY <2>1, <3>1, StartGoesOn
    <3>2. CASE Conns = {}
      <4>1. reg = 0 /\ startOps' = startOps
        BY <2>1, <3>2 DEF OnRunQueued, DispatchInv, Types, ServerTypes
      <4>2. UNCHANGED <<binding, reg, nodeVars, netVars, startOps>> /\ queued' \subseteq queued
        BY <2>1, <4>1 DEF OnRunQueued
      <4>3. /\ UNCHANGED <<run, reason, confirmed, grace, expiring, stopDone>>
        BY <2>1 DEF OnRunQueued, storeVars, runVars
      <4>4. Calm /\ \A x \in Runs : Quiet(x)
        BY <4>2, <4>3, StoreCalm DEF Quiet, Asked
      <4> QED
        BY <4>4, QuietKeeps
    <3> QED
      BY <3>1, <3>2
  <2>2. CASE ExpireRun(r)
    BY <2>2, ExpireAsked
  <2>3. ASSUME NEW intent \in Intents, AfterStop(r, intent) PROVE RejectInv'
    BY <2>3, AfterStopAsked
  <2> QED
    BY <1>4, <2>1, <2>2, <2>3 DEF RunStep, Intents
<1>5. ASSUME NEW r \in Runs, NodeHandler(r) PROVE RejectInv'
  BY <1>5, StartRejected, StartAccepts, TerminalSent, StopsAndResumesAnswered DEF NodeHandler
<1>6. ASSUME NEW r \in Runs, ProcessEnds(r) PROVE RejectInv'
  BY <1>6, ExitKeeps
<1>7. ASSUME NEW c \in Conns, ServerStep(c) PROVE RejectInv'
  <2>1. CASE Activate(c) \/ ResumeList(c) \/ ServerClose(c)
    BY <2>1, ActivateAsked, ListAsked, CloseAsked
  <2>2. CASE Receive(c)
    BY <2>2, ReceiveAsked
  <2>3. CASE WorkEvent(c)
    BY <2>3, EventAsked
  <2>4. CASE WorkStartRejected(c)
    BY <2>4, RejectionAsked
  <2>5. CASE WorkResumeRejected(c) \/ WorkResumeTimeout(c)
    BY <2>5, LostRunAsked
  <2>6. CASE WorkStopAck(c)
    BY <2>6, StopEndsAsked
  <2>7. ASSUME NEW r \in Runs, SendRunStart(r, c) PROVE RejectInv'
    BY <2>7, StartGoesOn
  <2>8. ASSUME NEW r \in Runs, SendRunResume(c, r) PROVE RejectInv'
    BY <2>8, ResumeStepsAsked
  <2>9. ASSUME NEW r \in Runs, ReconcileSurvivingProcess(c, r) PROVE RejectInv'
    BY <2>9, StopStepsAsked
  <2> QED
    BY <1>7, <2>1, <2>2, <2>3, <2>4, <2>5, <2>6, <2>7, <2>8, <2>9 DEF ServerStep
<1>8. ASSUME NEW c \in Conns, NodeConnect(c) \/ NodeDrop(c) \/ NodeFrame(c) PROVE RejectInv'
  BY <1>8, ConnectOrdered, DropKeeps, CommandTaken, ReceiptTaken DEF NodeFrame
<1>9. ASSUME NEW c \in Conns, NEW r \in Runs, StopTimeout(c, r) \/ ResumeTimeout(c, r)
      PROVE  RejectInv'
  BY <1>9, StopEndsAsked, ResumeStepsAsked
<1>10. CASE ServerRestart \/ NodeRestart
  BY <1>10, RestartAsked, DaemonRestarts
<1> QED
  BY <1>1, <1>2, <1>3, <1>4, <1>5, <1>6, <1>7, <1>8, <1>9, <1>10 DEF DispatchNext

\* When closes are seen in order and database work ends before the connections
\* change, whatever the frames, drops, restarts and timeouts, for any number of
\* runs and connections: the store takes only the steps RunStore allows, so that
\* what RunStore relies on the owning node for (NodeDelivers, NodeRejectsStart)
\* is what node-binding.ts and node-client.ts do.
THEOREM DispatchImplementsStore ==
  ASSUME OrderedClose, PromptServer, Runs # {}
  PROVE  DispatchSpec => ImplementsStore
<1> DEFINE Inv == RowsInv /\ DispatchInv /\ RejectInv
<1>1. DispatchInit => Inv /\ Init
  BY StoreInvInit, DispatchInvInit, RejectInvInit DEF DispatchInit, StoreInv
<1>2. Inv /\ [DispatchNext]_dispatchVars => [Next]_storeVars
  BY DispatchMoves, MoveIsStep
<1>3. Inv /\ [DispatchNext]_dispatchVars => Inv'
  BY <1>2, RowsStep, DispatchInvStep, RejectInvStep
<1> QED
  BY <1>1, <1>2, <1>3, PTL DEF DispatchSpec, ImplementsStore, Spec

\* What the services promise of their rows holds while nodes disconnect, resume,
\* time out and restart: leases exclude each other and stay with unsettled runs
\* (lease-service.ts), a task has at most one unsettled run and is never left
\* without the run that will move it (lifecycle-service.ts), and no late frame
\* changes a settled run (run-service.ts).
THEOREM ProtocolKeepsStore ==
  ASSUME OrderedClose, PromptServer, Runs # {}
  PROVE  DispatchSpec => /\ []LeaseExclusion
                         /\ []UnsettledRunKeepsLeases
                         /\ []OneUnsettledRunPerTask
                         /\ []NoStrandedTask
                         /\ SettledRunIsFinal
  BY DispatchImplementsStore, LeasesExclude, LeasesKept, OneRunPerTask, NoTaskStranded,
     SettledRunsFinal, PTL DEF ImplementsStore

\* The approval fixture has no part in the dispatch of runs.
LEMMA FixtureApart ==
  ASSUME RowsInv, StoreMove PROVE FixtureUnused' <=> FixtureUnused
<1>1. CASE TaskStep \/ UNCHANGED storeVars
  BY <1>1 DEF TaskStep, MarkReady, AcceptReview, RequestChanges, RetryTask, storeVars,
              approvalVars, FixtureUnused
<1>2. CASE \E t \in Tasks, r \in Runs : AssignTask(t, r)
  BY <1>2 DEF AssignTask, FixtureUnused
<1>3. CASE \E r \in Runs : RunHandler(r)
  BY <1>3, HandlerOutcome, OutcomeRows DEF RowsInv, RowsOK, approvalVars, FixtureUnused
<1>4. CASE \E c \in Computers : SetComputerOnline(c) \/ SetComputerOffline(c)
  BY <1>4 DEF SetComputerOnline, SetComputerOffline, approvalVars, FixtureUnused
<1> QED
  BY <1>1, <1>2, <1>3, <1>4 DEF StoreMove

\* While task and run are in step, only the failure of its active run frees a task.
LEMMA FreedWithRun ==
  ASSUME RowsInv, ProductionInv, FixtureUnused', StoreMove,
         NEW t \in Tasks, task[t] = "assigned", task'[t] = "ready"
  PROVE  \E r \in RunsOf(t) : Active(r) /\ run'[r] = "failed"
<1>0. TypeOK /\ NoPausedTask
  BY DEF RowsInv, ProductionInv
<1>1. CASE \/ TaskStep \/ UNCHANGED storeVars
           \/ \E c \in Computers : SetComputerOnline(c) \/ SetComputerOffline(c)
  BY <1>0, <1>1, QuietTasks
<1>2. ASSUME NEW u \in Tasks, NEW r \in Runs, AssignTask(u, r) PROVE FALSE
  BY <1>0, <1>2, AssignRows DEF TypeOK
<1>3. ASSUME NEW r \in Runs, RunHandler(r)
      PROVE  \E x \in RunsOf(t) : Active(x) /\ run'[x] = "failed"
  <2>1. RowsOK /\ RunOutcome(r)
    BY <1>3, HandlerOutcome DEF RowsInv, RowsOK
  <2>2. TaskOf[r] = t
    BY <2>1, OutcomeRows
  <2>3. Active(r) /\ run'[r] \in {"completed", "failed", "cancelled"} /\ run'[r] # "cancelled"
    BY <2>1, <2>2, ProductionOutcome, StatusFacts
  <2>4. run'[r] = "completed" => run[r] = "running"
    <3>1. Completes(r) => run[r] = "running"
      BY DEF Completes
    <3>2. Starts(r) \/ Fails(r) \/ Cancels(r) => run'[r] # "completed"
      BY <1>0 DEF Starts, Fails, FailsRunning, FailsQueued, Cancels, Update, TypeOK
    <3>3. StaysSettled(r) \/ OnlyReceipt(r) => run' = run
      BY DEF StaysSettled, OnlyReceipt, runVars
    <3>4. run[r] # "completed"
      BY <2>3, StatusFacts DEF Active
    <3> QED
      BY <2>1, <3>1, <3>2, <3>3, <3>4 DEF RunOutcome
  <2>5. run[r] # "running"
    BY <2>2 DEF ProductionInv, InStep
  <2> QED
    BY <2>2, <2>3, <2>4, <2>5 DEF RunsOf
<1> QED
  BY <1>1, <1>2, <1>3 DEF StoreMove

\* transition-service.ts: "a duplicate/stale request changes nothing".  An assigned
\* task goes back to ready only together with an active run of it that fails,
\* never by the late rejection of an earlier run (node-binding.ts, failRunStart).
THEOREM TasksFreedByTheirRuns ==
  ASSUME OrderedClose, PromptServer, Runs # {}
  PROVE  DispatchSpec => TaskFreedByItsRun
<1> DEFINE Inv == RowsInv /\ DispatchInv /\ RejectInv /\ FixtureUnused /\ ProductionInv
           Freed == \A t \in Tasks : task[t] = "assigned" /\ task'[t] = "ready"
                      => \E r \in RunsOf(t) : Active(r) /\ run'[r] = "failed"
<1>1. DispatchInit => Inv
  <2>1. Init => ProductionInv /\ FixtureUnused
    BY ProductionInit DEF ProductionInv, NoPausedTask
  <2> QED
    BY <2>1, StoreInvInit, DispatchInvInit, RejectInvInit DEF DispatchInit, StoreInv
<1>2. Inv /\ [DispatchNext]_dispatchVars => StoreMove /\ [Next]_storeVars /\ FixtureUnused'
  BY DispatchMoves, MoveIsStep, FixtureApart
<1>3. Inv /\ [DispatchNext]_dispatchVars => Inv'
  BY <1>2, RowsStep, DispatchInvStep, RejectInvStep, ProductionStep
<1>4. Inv /\ [DispatchNext]_dispatchVars => [Freed]_dispatchVars
  BY <1>2, FreedWithRun
<1> QED
  BY <1>1, <1>3, <1>4, PTL DEF DispatchSpec, TaskFreedByItsRun

-------------------------------------------------------------------------------
(* What tells of an end *)

\* The start of r may still reach the daemon.
Coming(r) ==
  \/ r \in queued /\ cur # 0 /\ reg = cur
  \/ \E c \in Conns : cur = c /\ (<<r, c>> \in startOps \/ StartOf(r) \in ToSet(s2n[c]))

\* There is no process of r, and none will be started.
Ended(r) ==
  /\ run[r] # None /\ r \notin alive /\ ~Starting(r)
  /\ Coming(r) => nrun[r] = "finished"

\* Frames that say so.
Tells(f) ==
  \/ f.op = "event" /\ f.status # "started"
  \/ f.op = "stopAck" /\ f.status = "accepted"
  \/ f.op = "resumeAck" /\ f.status # "accepted"

Heard(r) ==
  \E c \in Conns : \E f \in ToSet(n2s[c]) \cup ToSet(binding[c].work) : f.run = r /\ Tells(f)
Resolved(r) == \E intent \in Intents : <<r, intent>> \in stopDone
AtDaemon(r) ==
  exit[r] # None \/ (pend[r] # NoEvent /\ (pend[r].last \/ pend[r].body # "started"))
Stored(r) ==
  \/ r \in confirmed \/ run[r] \in {"completed", "cancelled"}
  \/ run[r] = "failed" /\ reason[r] = "other"

Signalled(r) == Heard(r) \/ Resolved(r) \/ AtDaemon(r) \/ Stored(r)
Signals == \A r \in Runs : Signalled(r) => Ended(r)

\* Only a refused resume is left to work on.
WorkTells ==
  \A c \in Conns : \A f \in ToSet(binding[c].work) : f.op = "resumeAck" => f.status # "accepted"

\* The daemon is asked about runs that are assigned, and of a resumed one no
\* start follows; started is refused for a fault only.
Unsent(r, c) == r \notin queued /\ <<r, c>> \notin startOps /\ StartOf(r) \notin ToSet(s2n[c])
CommandOK(f, c) ==
  /\ f.op \in {"stop", "resume"} => run[f.run] # None
  /\ f.op = "resume" => Unsent(f.run, c)
RefusalOK(f) == f.op = "receipt" /\ f.n = 0 /\ f.status # "accepted" => left.fault = 0
Commands ==
  \A c \in Conns : /\ \A f \in ToSet(s2n[c]) : CommandOK(f, c) /\ RefusalOK(f)
                   /\ \A f : <<c, f>> \in nodeTodo => CommandOK(f, c)

\* A process has a handle.
NoOrphan == \A r \in alive : nrun[r] = "live"

\* One ingestion, or one stop of a process, fails at most.
Faults == left \in [cancel : Nat, timeout : Nat, fault : {0, 1}, restart : Nat]

EndInv == Signals /\ WorkTells /\ Commands /\ NoOrphan /\ Faults

\* A step keeps all of it, and what ended stays so.
EndStep == EndInv' /\ \A r \in Runs : Ended(r) => Ended(r)'

-------------------------------------------------------------------------------
(* Starts on their way *)

\* Starts go from the queue to the current binding, and from there to its socket.
StartsMove ==
  /\ cur' \in {0, cur}
  /\ reg' \in {0, reg} \/ queued = {}
  /\ \A r \in Runs :
       /\ run'[r] = None => run[r] = None
       /\ r \in queued' => r \in queued \/ run[r] = None
       /\ \A c \in Conns :
            /\ <<r, c>> \in startOps' => <<r, c>> \in startOps \/ (r \in queued /\ reg = c)
            /\ StartOf(r) \in ToSet(s2n'[c]) => StartOf(r) \in ToSet(s2n[c]) \/ <<r, c>> \in startOps

LEMMA StartsMoveOn ==
  ASSUME StartsMove, NEW r \in Runs, run[r] # None
  PROVE  /\ run'[r] # None
         /\ Coming(r)' => Coming(r) /\ cur' # 0
         /\ \A c \in Conns : Unsent(r, c) => Unsent(r, c)'
<1>0. \A c \in Conns : c # 0
  BY DispatchAssumption DEF Conns, DispatchAssumption
<1>1. ASSUME r \in queued', cur' # 0, reg' = cur' PROVE Coming(r)
  BY <1>1 DEF StartsMove, Coming
<1>2. ASSUME NEW c \in Conns, cur' = c, <<r, c>> \in startOps' \/ StartOf(r) \in ToSet(s2n'[c])
      PROVE  Coming(r) /\ cur' # 0
  BY <1>0, <1>2 DEF StartsMove, Coming
<1>3. \A c \in Conns : Unsent(r, c) => Unsent(r, c)'
  BY DEF StartsMove, Unsent
<1>4. run'[r] # None
  BY DEF StartsMove
<1>5. ASSUME Coming(r)' PROVE Coming(r) /\ cur' # 0
  BY <1>1, <1>2, <1>5 DEF Coming
<1> QED
  BY <1>3, <1>4, <1>5

LEMMA FrameRun == ASSUME NEW f \in Frames PROVE f.run \in Runs
  BY Zenon DEF Frames

\* What was asked of the daemon stays right.
LEMMA CommandStays ==
  ASSUME StartsMove, NEW f \in Frames, NEW c \in Conns, CommandOK(f, c)
  PROVE  CommandOK(f, c)'
BY FrameRun, StartsMoveOn DEF CommandOK

\* A step keeps the invariant if it starts no process of a run that ended, and
\* whatever new tells of an end is true.
LEMMA EndsKeep ==
  ASSUME DispatchInv, DispatchInv', EndInv, StartsMove, Faults',
         left.fault = 0 => left'.fault = 0,
         \A c \in Conns :
           /\ \A f \in ToSet(s2n'[c]) :
                f \in ToSet(s2n[c]) \/ f.op = "start" \/ (CommandOK(f, c) /\ RefusalOK(f)')
           /\ \A f : <<c, f>> \in nodeTodo' => <<c, f>> \in nodeTodo \/ f \in ToSet(s2n[c])
           /\ \A f \in ToSet(n2s'[c]) :
                f \in ToSet(n2s[c]) \/ (Tells(f) => Signalled(f.run) \/ Ended(f.run)')
           /\ \A f \in ToSet(binding'[c].work) :
                \/ f \in ToSet(binding[c].work)
                \/ (f \in ToSet(n2s[c]) \/ ~Tells(f)) /\ (f.op = "resumeAck" => f.status # "accepted"),
         \A r \in Runs :
           /\ Resolved(r)' \/ AtDaemon(r)' \/ Stored(r)' => Signalled(r) \/ Ended(r)'
           /\ r \in alive' => r \in alive \/ Starting(r)
           /\ Starting(r)' => Starting(r) \/ (Coming(r) /\ nrun[r] # "finished")
           /\ cur' # 0 /\ nrun[r] = "finished" => nrun'[r] = "finished",
         NoOrphan'
  PROVE  EndStep
<1>0. /\ s2n \in [Conns -> Seq(Frames)] /\ s2n' \in [Conns -> Seq(Frames)]
      /\ nodeTodo \subseteq Conns \X Frames /\ nodeTodo' \subseteq Conns \X Frames
  BY DEF DispatchInv, Types, NetTypes, NodeTypes
<1>1. ASSUME NEW r \in Runs, Ended(r) PROVE Ended(r)'
  BY <1>1, StartsMoveOn DEF Ended
<1>2. ASSUME NEW r \in Runs, Heard(r)' PROVE Signalled(r) \/ Ended(r)'
  <2>1. PICK c \in Conns : \E f \in ToSet(n2s'[c]) \cup ToSet(binding'[c].work) : f.run = r /\ Tells(f)
    BY <1>2 DEF Heard, Tells
  <2>0. PICK f \in ToSet(n2s'[c]) \cup ToSet(binding'[c].work) : f.run = r /\ Tells(f)
    BY <2>1
  <2>2. f \in ToSet(n2s[c]) \cup ToSet(binding[c].work) => Signalled(r)
    BY <2>0 DEF Heard, Signalled
  <2> QED
    BY <2>0, <2>2
<1>3. Signals'
  BY <1>2, <1>1 DEF Signalled, Signals, EndInv
<1>4. WorkTells'
  BY DEF WorkTells, EndInv
<1>5. Commands'
  <2>1. ASSUME NEW c \in Conns, NEW f \in ToSet(s2n'[c]) PROVE CommandOK(f, c)' /\ RefusalOK(f)'
    <3>1. f \in Frames
      BY <1>0, ElemsIn
    <3>2. CASE f \in ToSet(s2n[c])
      BY <3>2, <3>1, CommandStays DEF EndInv, Commands, RefusalOK
    <3>3. CASE f.op = "start"
      BY <3>3 DEF CommandOK, RefusalOK
    <3>4. CASE CommandOK(f, c) /\ RefusalOK(f)'
      BY <3>1, <3>4, CommandStays
    <3> QED
      BY <3>2, <3>3, <3>4
  <2>2. ASSUME NEW c \in Conns, NEW f, <<c, f>> \in nodeTodo' PROVE CommandOK(f, c)'
    BY <1>0, <2>2, CommandStays DEF EndInv, Commands
  <2> QED
    BY <2>1, <2>2 DEF Commands
<1> QED
  BY <1>1, <1>3, <1>4, <1>5 DEF EndInv, EndStep

\* A step of the server: the daemon has its processes.
LEMMA ServerEnds ==
  ASSUME DispatchInv, DispatchInv', EndInv, StartsMove, UNCHANGED nodeVars, Faults',
         left.fault = 0 => left'.fault = 0,
         \A c \in Conns :
           /\ \A f \in ToSet(s2n'[c]) :
                f \in ToSet(s2n[c]) \/ f.op = "start" \/ (CommandOK(f, c) /\ RefusalOK(f)')
           /\ ToSet(n2s'[c]) \subseteq ToSet(n2s[c])
           /\ \A f \in ToSet(binding'[c].work) :
                \/ f \in ToSet(binding[c].work)
                \/ (f \in ToSet(n2s[c]) \/ ~Tells(f)) /\ (f.op = "resumeAck" => f.status # "accepted"),
         \A r \in Runs : Resolved(r)' \/ Stored(r)' => Signalled(r) \/ Ended(r)'
  PROVE  EndStep
BY EndsKeep DEF nodeVars, AtDaemon, Signalled, Starting, NoOrphan, EndInv

FaultsStay == Faults' /\ (left.fault = 0 => left'.fault = 0)

LEMMA BudgetSpent ==
  ASSUME EndInv, NEW x \in {"cancel", "timeout", "fault", "restart"}, Spend(x)
  PROVE  FaultsStay /\ (x = "fault" => left'.fault = 0)
<1>1. left \in [cancel : Nat, timeout : Nat, fault : {0, 1}, restart : Nat]
  BY DEF EndInv, Faults
<1>2. left[x] > 0 /\ left' = [left EXCEPT ![x] = @ - 1]
  BY DEF Spend
<1>3. CASE x = "cancel"
  BY <1>1, <1>2, <1>3 DEF FaultsStay, Faults
<1>4. CASE x = "timeout"
  BY <1>1, <1>2, <1>4 DEF FaultsStay, Faults
<1>5. CASE x = "fault"
  BY <1>1, <1>2, <1>5 DEF FaultsStay, Faults
<1>6. CASE x = "restart"
  BY <1>1, <1>2, <1>6 DEF FaultsStay, Faults
<1> QED
  BY <1>3, <1>4, <1>5, <1>6

LEMMA BudgetKept == ASSUME EndInv, left' = left PROVE FaultsStay
  BY DEF EndInv, Faults, FaultsStay

-------------------------------------------------------------------------------
(* Steps of the server *)

\* One binding changes, and one command or receipt is sent at most.
LEMMA BindingEnds ==
  ASSUME DispatchInv, DispatchInv', EndInv, FaultsStay, NEW c \in Conns, NEW b,
         binding' = [binding EXCEPT ![c] = b], UNCHANGED nodeVars,
         reg' \in {0, reg} \/ queued = {}, UNCHANGED <<queued, startOps>>,
         \A r \in Runs : run'[r] = None => run[r] = None,
         \A f \in ToSet(b.work) :
           \/ f \in ToSet(binding[c].work)
           \/ (f \in ToSet(n2s[c]) \/ ~Tells(f)) /\ (f.op = "resumeAck" => f.status # "accepted"),
         s2n' = s2n \/ \E g \in Frames : /\ g.op # "start" /\ s2n' = Sent(c, g)
                                         /\ CommandOK(g, c) /\ RefusalOK(g)',
         \A d \in Conns : ToSet(n2s'[d]) \subseteq ToSet(n2s[d]),
         \A r \in Runs : Resolved(r)' \/ Stored(r)' => Signalled(r) \/ Ended(r)'
  PROVE  EndStep
<1>0. binding \in [Conns -> Bindings] /\ NetTypes
  BY DEF DispatchInv, Types, ServerTypes
<1>1. UNCHANGED cur
  BY DEF nodeVars
<1>2. \A d \in Conns : binding'[d] = IF d = c THEN b ELSE binding[d]
  BY <1>0
<1>3. \A d \in Conns : \A f \in ToSet(s2n'[d]) :
        f \in ToSet(s2n[d]) \/ (f.op # "start" /\ CommandOK(f, d) /\ RefusalOK(f)')
  <2>1. CASE s2n' = s2n
    BY <2>1
  <2>2. ASSUME NEW g \in Frames, g.op # "start", s2n' = Sent(c, g), CommandOK(g, c), RefusalOK(g)'
        PROVE  \A d \in Conns : \A f \in ToSet(s2n'[d]) :
                 f \in ToSet(s2n[d]) \/ (f.op # "start" /\ CommandOK(f, d) /\ RefusalOK(f)')
    BY <1>0, <2>2, AppendElems DEF Sent, NetTypes
  <2> QED
    BY <2>1, <2>2
<1>4. StartsMove
  BY StartsDiffer, <1>1, <1>3 DEF StartsMove
<1> QED
  BY <1>2, <1>3, <1>4, ServerEnds DEF FaultsStay

\* The rows change, and what the server has still to do there.
LEMMA RowsEnd ==
  ASSUME DispatchInv, DispatchInv', EndInv, FaultsStay,
         UNCHANGED <<nodeVars, s2n>>, reg' \in {0, reg}, startOps' \subseteq startOps,
         \A r \in Runs : /\ run'[r] = None => run[r] = None
                         /\ r \in queued' => r \in queued \/ run[r] = None,
         \A d \in Conns : /\ ToSet(n2s'[d]) \subseteq ToSet(n2s[d])
                          /\ ToSet(binding'[d].work) \subseteq ToSet(binding[d].work),
         \A r \in Runs : Resolved(r)' \/ Stored(r)' => Signalled(r) \/ Ended(r)'
  PROVE  EndStep
BY ServerEnds DEF nodeVars, StartsMove, FaultsStay

\* Users and timers tell nothing of processes.
LEMMA UsersEnd ==
  ASSUME DispatchInv, DispatchInv', EndInv,
         \/ UserStep \/ GraceExpire \/ \E t \in Tasks, r \in Runs : Assign(t, r)
  PROVE  EndStep
<1>0. RowTypes
  BY DEF DispatchInv, Types
<1>1. ASSUME UserStep \/ GraceExpire PROVE EndStep
  <2>1. /\ UNCHANGED <<run, reason, confirmed>>
        /\ UNCHANGED <<binding, reg, queued, startOps, stopDone, nodeVars, s2n, n2s, left>>
    BY <1>1 DEF UserStep, GraceExpire, MarkReady, AcceptReview, RequestChanges, RetryTask,
                serverVars, netVars, storeVars, runVars
  <2>2. \A r \in Runs : (Resolved(r)' => Resolved(r)) /\ (Stored(r)' => Stored(r))
    BY <2>1 DEF Resolved, Stored
  <2> QED
    BY <2>1, <2>2, BudgetKept, RowsEnd DEF Signalled
<1>2. ASSUME NEW t \in Tasks, NEW r \in Runs, Assign(t, r) PROVE EndStep
  <2>1. /\ UNCHANGED <<binding, reg, startOps, stopDone, nodeVars, s2n, n2s, left>>
        /\ queued' = queued \cup {r} /\ run' = [run EXCEPT ![r] = "queued"] /\ run[r] = None
        /\ UNCHANGED <<reason, confirmed>>
    BY <1>2 DEF Assign, AssignTask, netVars
  <2>2. \A x \in Runs : (Resolved(x)' => Resolved(x)) /\ (Stored(x)' => Stored(x))
    BY <1>0, <2>1 DEF Resolved, Stored, RowTypes
  <2>3. \A x \in Runs : run'[x] = None => run[x] = None
    BY <1>0, <2>1 DEF RowTypes
  <2> QED
    BY <2>1, <2>2, <2>3, BudgetKept, RowsEnd DEF Signalled
<1> QED
  BY <1>1, <1>2

\* A queued run is looked up, and its start goes out.
LEMMA StartsEnd ==
  ASSUME DispatchInv, DispatchInv', EndInv, NEW r \in Runs,
         OnRunQueued(r) \/ \E c \in Conns : SendRunStart(r, c)
  PROVE  EndStep
<1>0. /\ binding \in [Conns -> Bindings] /\ NetTypes /\ reg \in {0} \cup Conns
      /\ startOps \subseteq Runs \X Conns
  BY DEF DispatchInv, Types, ServerTypes
<1>1. /\ UNCHANGED <<reg, nodeVars, n2s, left, stopDone>> /\ UNCHANGED <<run, reason, confirmed>>
      /\ UNCHANGED cur
  BY DEF OnRunQueued, SendRunStart, storeVars, runVars, netVars, nodeVars
<1>2. \A x \in Runs : (Resolved(x)' => Resolved(x)) /\ (Stored(x)' => Stored(x))
  BY <1>1 DEF Resolved, Stored
<1>3. ASSUME OnRunQueued(r) PROVE StartsMove /\ UNCHANGED <<binding, s2n>>
  BY <1>1, <1>3 DEF OnRunQueued, StartsMove, netVars
<1>4. ASSUME NEW c \in Conns, SendRunStart(r, c)
      PROVE  /\ StartsMove
             /\ \A d \in Conns :
                  /\ \A f \in ToSet(s2n'[d]) : f \in ToSet(s2n[d]) \/ f.op = "start"
                  /\ binding'[d].work = binding[d].work
  <2>1. StartOf(r) \in Frames /\ StartOf(r).op = "start"
    BY FrameKinds, StartsDiffer
  <2>2. \A d \in Conns : s2n'[d] = s2n[d] \/ (d = c /\ s2n'[d] = Append(s2n[d], StartOf(r)))
    BY <1>0, <1>4 DEF SendRunStart, Sent, NetTypes, StartOf
  <2>3. \A d \in Conns : \A f \in ToSet(s2n'[d]) : f \in ToSet(s2n[d]) \/ (d = c /\ f = StartOf(r))
    <3>1. ToSet(Append(s2n[c], StartOf(r))) = ToSet(s2n[c]) \cup {StartOf(r)}
      BY <1>0, <2>1, AppendElems DEF NetTypes
    <3>2. ASSUME NEW d \in Conns, NEW f \in ToSet(s2n'[d]), f \notin ToSet(s2n[d])
          PROVE  d = c /\ f = StartOf(r)
      <4>1. d = c /\ s2n'[c] = Append(s2n[c], StartOf(r))
        BY <2>2, <3>2
      <4>2. f \in ToSet(Append(s2n[c], StartOf(r))) /\ f \notin ToSet(s2n[c])
        BY <3>2, <4>1
      <4> QED
        BY <3>1, <4>1, <4>2
    <3> QED
      BY <3>2
  <2>4. \A x \in Runs : StartOf(x) = StartOf(r) => x = r
    BY StartsDiffer
  <2>5. StartsMove
    BY <1>1, <1>4, <2>3, <2>4 DEF SendRunStart, StartsMove
  <2>6. \A d \in Conns : binding'[d].work = binding[d].work
    <3>1. \/ binding' = binding
          \/ binding' = [binding EXCEPT ![c] = [binding[c] EXCEPT !.start = @ \cup {r}]]
      BY <1>4 DEF SendRunStart
    <3>2. [binding[c] EXCEPT !.start = @ \cup {r}].work = binding[c].work
      BY <1>0 DEF Bindings
    <3> QED
      BY <1>0, <3>1, <3>2
  <2> QED
    BY <2>1, <2>3, <2>5, <2>6
<1>5. FaultsStay
  BY <1>1, BudgetKept
<1>6. CASE OnRunQueued(r)
  BY <1>1, <1>2, <1>3, <1>5, <1>6, ServerEnds DEF FaultsStay, Signalled
<1>7. ASSUME NEW c \in Conns, SendRunStart(r, c) PROVE EndStep
  BY <1>1, <1>2, <1>4, <1>5, <1>7, ServerEnds DEF FaultsStay, Signalled
<1> QED
  BY <1>6, <1>7

-------------------------------------------------------------------------------
(* Transactions on a run *)

\* A transaction settles no run but its own.
LEMMA OthersStored ==
  ASSUME RowsInv, NEW r \in Runs, RunHandler(r)
  PROVE  \A x \in Runs \ {r} : Stored(x)' => Stored(x)
  BY HandledRun DEF Stored

\* A lost node proves no end.
LEMMA LossIsNoEnd ==
  ASSUME RowsInv, NEW r \in Runs, FailRunDaemonDisconnect(r, FALSE) PROVE Stored(r)' => Stored(r)
<1>1. r \in confirmed' => r \in confirmed
  BY DEF FailRunDaemonDisconnect, runVars
<1>2. \/ run'[r] = run[r] /\ reason'[r] = reason[r]
      \/ run'[r] = "failed" /\ reason'[r] = "daemon_disconnect"
  BY RunEdges, StatusFacts
     DEF FailRunDaemonDisconnect, FromQueued, CasRun, RowsInv, TypeOK, RunShape, runVars
<1> QED
  BY <1>1, <1>2 DEF Stored

LEMMA ExpireEnds ==
  ASSUME RowsInv, DispatchInv, DispatchInv', EndInv, NEW r \in Runs, ExpireRun(r) PROVE EndStep
<1>1. /\ FailRunDaemonDisconnect(r, FALSE) /\ RunHandler(r)
      /\ UNCHANGED <<binding, reg, queued, startOps, stopDone, nodeVars, s2n, n2s, left>>
  BY DEF ExpireRun, RunHandler, netVars
<1>2. RowsStay
  BY <1>1, DisconnectRows DEF DispatchInv, Types
<1>3. Stored(r)' => Stored(r)
  BY <1>1, LossIsNoEnd
<1>4. \A x \in Runs : Stored(x)' => Stored(x)
  BY <1>1, <1>3, OthersStored
<1>5. \A x \in Runs : Resolved(x)' => Resolved(x)
  BY <1>1 DEF Resolved
<1> QED
  BY <1>1, <1>2, <1>4, <1>5, BudgetKept, RowsEnd DEF Signalled, RowsStay

\* A caller goes on after its stop: the end was confirmed to it.
LEMMA AfterStopEnds ==
  ASSUME RowsInv, DispatchInv, DispatchInv', EndInv, NEW r \in Runs, NEW intent \in Intents,
         AfterStop(r, intent)
  PROVE  EndStep
<1>1. /\ <<r, intent>> \in stopDone /\ stopDone' \subseteq stopDone
      /\ UNCHANGED <<binding, reg, queued, startOps, nodeVars, s2n, n2s, left>>
      /\ \/ intent = "reconcile" /\ FailRunDaemonDisconnect(r, TRUE)
         \/ intent = "cancel" /\ CancelRunCommit(r)
         \/ intent = "cancel" /\ UNCHANGED storeVars
  BY DEF AfterStop, Intents, netVars
<1>2. RowsStay
  BY <1>1, DisconnectRows, CancelRows, QuietRows DEF DispatchInv, Types
<1>3. \A x \in Runs \ {r} : Stored(x)' => Stored(x)
  BY <1>1, OthersStored DEF RunHandler, Stored, storeVars, runVars
<1>4. Signalled(r)
  BY <1>1 DEF Signalled, Resolved
<1>5. \A x \in Runs : Resolved(x)' => Resolved(x)
  BY <1>1 DEF Resolved
<1> QED
  BY <1>1, <1>2, <1>3, <1>4, <1>5, BudgetKept, RowsEnd DEF Signalled, RowsStay

-------------------------------------------------------------------------------
(* Stops and resumes are asked for *)

\* What the store has is left alone.
LEMMA RowsAlone ==
  ASSUME UNCHANGED <<run, reason, confirmed, stopDone>>
  PROVE  /\ \A r \in Runs : Resolved(r)' \/ Stored(r)' => Signalled(r)
         /\ \A r \in Runs : run'[r] = None => run[r] = None
  BY DEF Resolved, Stored, Signalled

LEMMA StopEnds ==
  ASSUME DispatchInv, DispatchInv', EndInv, FaultsStay, NEW c \in Conns, NEW b \in Bindings,
         b.work = binding[c].work, NEW r \in Runs, run[r] # None, NEW intent \in Intents,
         DispatchRunStop(c, b, r, intent),
         UNCHANGED <<storeVars, reg, queued, startOps, stopDone, nodeVars, n2s>>
  PROVE  EndStep
<1>1. PICK x : /\ x = [b EXCEPT !.wait = @ \cup {<<r, intent>>},
                                !.stop[r] = IF b.stop[r] = "idle" THEN "sent" ELSE @]
               /\ binding' = [binding EXCEPT ![c] = x]
  BY DEF DispatchRunStop
<1>2. x.work = binding[c].work
  BY <1>1 DEF Bindings
<1>3. s2n' = s2n \/ s2n' = Sent(c, Frame("stop", r, stopNo[r] + 1, ""))
  BY DEF DispatchRunStop
<1>4. ASSUME NEW g, g = Frame("stop", r, stopNo[r] + 1, "")
      PROVE  g \in Frames /\ g.op # "start" /\ CommandOK(g, c) /\ RefusalOK(g)'
  <2>1. stopNo[r] + 1 \in Nat
    BY DEF DispatchInv, Types, NetTypes
  <2> QED
    BY <1>4, <2>1, FrameKinds DEF Frame, CommandOK, RefusalOK
<1>5. UNCHANGED <<run, reason, confirmed, stopDone>>
  BY DEF storeVars, runVars
<1> QED
  BY <1>1, <1>2, <1>3, <1>4, <1>5, RowsAlone, BindingEnds

LEMMA StopStepsEnd ==
  ASSUME DispatchInv, DispatchInv', EndInv, NEW c \in Conns, NEW r \in Runs,
         CancelRun(r) \/ ReconcileSurvivingProcess(c, r)
  PROVE  EndStep
<1>0. Types /\ None \notin RunStatus
  BY StoreAssumption DEF DispatchInv, StoreAssumption
<1>1. CASE CancelRun(r)
  BY <1>1, <1>0, RunEdges, BudgetSpent, StopEnds DEF CancelRun, Types, ServerTypes, Intents
<1>2. CASE ReconcileSurvivingProcess(c, r)
  <2>1. PICK b : b = [binding[c] EXCEPT !.reconcile = @ \ {r}]
    OBVIOUS
  <2>2. b \in Bindings /\ b.work = binding[c].work
    BY <1>0, <2>1, ZenonT(40) DEF Types, ServerTypes, Bindings
  <2>3. /\ UNCHANGED <<storeVars, reg, queued, startOps, stopDone, nodeVars, n2s, left>>
        /\ \/ run[r] = "failed" /\ DispatchRunStop(c, b, r, "reconcile")
           \/ binding' = [binding EXCEPT ![c] = b] /\ s2n' = s2n
    BY <1>2, <2>1 DEF ReconcileSurvivingProcess
  <2>4. CASE run[r] = "failed" /\ DispatchRunStop(c, b, r, "reconcile")
    BY <1>0, <2>4, StatusFacts, <2>2, <2>3, BudgetKept, StopEnds DEF Intents
  <2>5. CASE binding' = [binding EXCEPT ![c] = b] /\ s2n' = s2n
    BY <2>3, <2>2, <2>5, RowsAlone, BudgetKept, BindingEnds DEF storeVars, runVars
  <2> QED
    BY <2>3, <2>4, <2>5
<1> QED
  BY <1>1, <1>2

\* What is resumed has no start on its way, and no answer is late but a refusal.
LEMMA ResumeStepsEnd ==
  ASSUME DispatchInv, DispatchInv', RejectInv, EndInv, NEW c \in Conns, NEW r \in Runs,
         SendRunResume(c, r) \/ ResumeTimeout(c, r)
  PROVE  EndStep
<1>0. /\ binding[c] \in Bindings /\ UNCHANGED <<reg, queued, startOps, nodeVars, n2s>>
      /\ UNCHANGED <<run, reason, confirmed, stopDone>>
  BY DEF SendRunResume, ResumeTimeout, netVars, storeVars, runVars, DispatchInv, Types, ServerTypes
<1>1. ASSUME SendRunResume(c, r) PROVE EndStep
  <2>1. r \in binding[c].todo /\ left' = left
    BY <1>1 DEF SendRunResume
  <2>2. CASE reg = c
    <3>1. PICK b : /\ b = [binding[c] EXCEPT !.todo = @ \ {r}, !.resume = @ \cup {r}]
                   /\ binding' = [binding EXCEPT ![c] = b]
      BY <1>1, <2>2 DEF SendRunResume
    <3>2. b.work = binding[c].work
      BY <1>0, <3>1 DEF Bindings
    <3>3. s2n' = Sent(c, Frame("resume", r, 0, ""))
      BY <1>1, <2>2 DEF SendRunResume
    <3>4. ~Fresh(r)
      BY <2>1 DEF RejectInv, Unasked, Asked, AskedOf
    <3>5. ~Closed(c)
      BY DispatchAssumption, <2>2 DEF Conns, DispatchAssumption, DispatchInv, InStepHere, Closed
    <3>6. run[r] # None /\ Unsent(r, c)
      BY <3>4, <3>5 DEF Fresh, StartFrom, Unsent
    <3>7. ASSUME NEW g, g = Frame("resume", r, 0, "")
          PROVE  g \in Frames /\ g.op # "start" /\ CommandOK(g, c) /\ RefusalOK(g)'
      BY <3>6, <3>7, FrameKinds DEF Frame, CommandOK, RefusalOK
    <3> QED
      BY <1>0, <2>1, <3>1, <3>2, <3>3, <3>7, RowsAlone, BudgetKept, BindingEnds
  <2>3. CASE reg # c
    <3>1. PICK b : b = [binding[c] EXCEPT !.todo = {}] /\ binding' = [binding EXCEPT ![c] = b]
      BY <1>1, <2>3 DEF SendRunResume
    <3>2. b.work = binding[c].work /\ s2n' = s2n
      BY <1>0, <1>1, <2>3, <3>1 DEF Bindings, SendRunResume
    <3> QED
      BY <1>0, <2>1, <3>1, <3>2, RowsAlone, BudgetKept, BindingEnds
  <2> QED
    BY <2>2, <2>3
<1>2. ASSUME ResumeTimeout(c, r) PROVE EndStep
  <2>1. PICK g : g = Frame("resumeTimeout", r, 0, "")
    OBVIOUS
  <2>2. PICK b : /\ b = [binding[c] EXCEPT !.resume = @ \ {r}, !.work = Append(@, g)]
                 /\ binding' = [binding EXCEPT ![c] = b]
    BY <1>2, <2>1 DEF ResumeTimeout
  <2>3. /\ g \in Frames /\ ~Tells(g) /\ g.op # "resumeAck"
        /\ b.work = Append(binding[c].work, g) /\ binding[c].work \in Seq(Frames)
    BY <1>0, <2>1, <2>2, FrameKinds DEF Bindings, Tells, Frame
  <2>4. \A f \in ToSet(b.work) : f \in ToSet(binding[c].work) \/ f = g
    BY <2>3, AppendElems
  <2>5. s2n' = s2n /\ Spend("timeout")
    BY <1>2 DEF ResumeTimeout, netVars
  <2> QED
    BY <1>0, <2>2, <2>3, <2>4, <2>5, RowsAlone, BudgetSpent, BindingEnds
<1> QED
  BY <1>1, <1>2

-------------------------------------------------------------------------------
(* The connections change *)

\* Timeouts, the resume list and the registration of a connection.
LEMMA ListEnds ==
  ASSUME DispatchInv, DispatchInv', EndInv, PromptServer, NEW c \in Conns,
         \/ Activate(c) \/ ResumeList(c) \/ ServerClose(c)
         \/ \E r \in Runs : StopTimeout(c, r)
  PROVE  EndStep
<1>0. binding[c] \in Bindings /\ n2s \in [Conns -> Seq(Frames)]
  BY DEF DispatchInv, Types, ServerTypes, NetTypes
<1>1. /\ UNCHANGED <<queued, startOps, nodeVars, s2n>> /\ UNCHANGED <<run, reason, confirmed, stopDone>>
      /\ reg' \in {0, reg} \/ queued = {}
      /\ \A d \in Conns : ToSet(n2s'[d]) \subseteq ToSet(n2s[d])
      /\ FaultsStay
  <2>1. CASE Activate(c)
    BY <2>1, BudgetKept DEF Activate, SetComputerOnline, netVars, storeVars, runVars
  <2>2. CASE ResumeList(c)
    BY <2>2, BudgetKept DEF ResumeList, netVars, storeVars, runVars
  <2>3. CASE ServerClose(c)
    <3>1. \A d \in Conns : n2s'[d] = n2s[d] \/ n2s'[d] = <<>>
      BY <1>0, <2>3 DEF ServerClose
    <3>2. \A d \in Conns : ToSet(n2s'[d]) \subseteq ToSet(n2s[d])
      BY <3>1, NoElems
    <3> QED
      BY <2>3, <3>2, BudgetKept DEF ServerClose, SetComputerOffline, netVars, storeVars, runVars
  <2>4. CASE \E r \in Runs : StopTimeout(c, r)
    BY <2>4, BudgetSpent DEF StopTimeout, netVars, storeVars, runVars
  <2> QED
    BY <2>1, <2>2, <2>3, <2>4
<1>2. \E b : b.work = binding[c].work /\ binding' = [binding EXCEPT ![c] = b]
  <2>1. CASE Activate(c)
    <3>1. PICK b : /\ b = [binding[c] EXCEPT !.side = "active", !.snap = grace]
                   /\ binding' = [binding EXCEPT ![c] = b]
      BY <2>1 DEF Activate
    <3>2. b.work = binding[c].work
      BY <1>0, <3>1 DEF Bindings
    <3> QED
      BY <3>1, <3>2
  <2>2. CASE ResumeList(c)
    <3>1. PICK b : /\ b = [binding[c] EXCEPT !.side = "ready", !.snap = {},
                             !.todo = (binding[c].snap \cap ActiveRuns)
                                        \cup {r \in Runs : UnconfirmedDisconnect(r)}]
                   /\ binding' = [binding EXCEPT ![c] = b]
      BY <2>2 DEF ResumeList
    <3>2. b.work = binding[c].work
      BY <1>0, <3>1 DEF Bindings
    <3> QED
      BY <3>1, <3>2
  <2>3. CASE ServerClose(c)
    BY <2>3 DEF ClosedBinding, NewBinding, ServerClose
  <2>4. CASE \E r \in Runs : StopTimeout(c, r)
    <3>1. PICK r \in Runs : binding' = [binding EXCEPT ![c] = StopSettled(c, binding[c], r)]
      BY <2>4 DEF StopTimeout
    <3>2. StopSettled(c, binding[c], r).work = binding[c].work
      BY <1>0 DEF Bindings, StopSettled
    <3> QED
      BY <3>1, <3>2
  <2> QED
    BY <2>1, <2>2, <2>3, <2>4
<1> QED
  BY <1>1, <1>2, RowsAlone, BindingEnds

LEMMA RestartEnds == ASSUME DispatchInv, DispatchInv', EndInv, ServerRestart PROVE EndStep
<1>1. /\ UNCHANGED <<nodeVars, s2n>> /\ UNCHANGED <<run, reason, confirmed>> /\ UNCHANGED cur
      /\ reg' = 0 /\ queued' = {} /\ startOps' = {} /\ stopDone' = {}
      /\ n2s' = [d \in Conns |-> <<>>] /\ Spend("restart")
      /\ binding' = [d \in Conns |-> [NewBinding EXCEPT
                       !.side = IF binding[d].side = "none" THEN "none" ELSE "closed"]]
  BY DEF ServerRestart, SetComputerOffline, storeVars, runVars, nodeVars
<1>2. \A d \in Conns : ToSet(n2s'[d]) = {} /\ ToSet(binding'[d].work) = {}
  BY <1>1, NoElems, NewBindingKinds
<1>3. StartsMove /\ \A x \in Runs : (Resolved(x)' => Resolved(x)) /\ (Stored(x)' => Stored(x))
  BY <1>1 DEF StartsMove, Resolved, Stored
<1> QED
  BY <1>1, <1>2, <1>3, BudgetSpent, ServerEnds DEF FaultsStay, Signalled

-------------------------------------------------------------------------------
(* Frames of the daemon come in and are worked on *)

LEMMA ArrivedWork ==
  ASSUME NEW x \in Bindings, NEW f \in Frames
  PROVE  \/ Arrived(x, f).work = x.work
         \/ Arrived(x, f).work = Append(x.work, f) /\ (f.op = "resumeAck" => f.status # "accepted")
<1>1. PICK b : b = Arrived(x, f)
  OBVIOUS
<1>2. PICK w : w = Append(x.work, f)
  OBVIOUS
<1>3. PICK stop, start, resume, reconcile :
        /\ stop = [x.stop EXCEPT ![f.run] = "acked"] /\ start = x.start \ {f.run}
        /\ resume = x.resume \ {f.run} /\ reconcile = x.reconcile \cup {f.run}
  OBVIOUS
<1>4. \/ b = x
      \/ b = [x EXCEPT !.work = w] /\ f.op = "event"
      \/ b = [x EXCEPT !.stop = stop, !.work = w] /\ f.op = "stopAck"
      \/ /\ f.op = "startAck"
         /\ b = [x EXCEPT !.start = start, !.work = x.work] \/ b = [x EXCEPT !.start = start, !.work = w]
      \/ b = [x EXCEPT !.resume = resume, !.reconcile = reconcile]
      \/ b = [x EXCEPT !.resume = resume, !.work = w] /\ f.status # "accepted"
  BY <1>1, <1>2, <1>3 DEF Arrived
<1>5. \/ b.work = x.work \/ (b.work = w /\ (f.op = "resumeAck" => f.status # "accepted"))
  BY <1>4 DEF Bindings
<1> QED
  BY <1>1, <1>2, <1>5

LEMMA ReceiveEnds ==
  ASSUME DispatchInv, DispatchInv', EndInv, NEW c \in Conns, Receive(c) PROVE EndStep
<1>0. binding[c] \in Bindings /\ NetTypes /\ binding[c].work \in Seq(Frames)
  BY DEF DispatchInv, Types, ServerTypes, Bindings
<1>1. PICK f : f = Head(n2s[c])
  OBVIOUS
<1>2. f \in Frames /\ f \in ToSet(n2s[c])
  BY <1>0, <1>1, TailElems DEF NetTypes, Receive
<1>3. PICK b : b = Arrived(binding[c], f) /\ binding' = [binding EXCEPT ![c] = b]
  BY <1>1 DEF Receive
<1>4. \A g \in ToSet(b.work) :
        g \in ToSet(binding[c].work) \/ (g \in ToSet(n2s[c]) /\ (g.op = "resumeAck" => g.status # "accepted"))
  <2>1. \/ b.work = binding[c].work
        \/ b.work = Append(binding[c].work, f) /\ (f.op = "resumeAck" => f.status # "accepted")
    BY <1>0, <1>2, <1>3, ArrivedWork
  <2>2. ToSet(Append(binding[c].work, f)) = ToSet(binding[c].work) \cup {f}
    BY <1>0, <1>2, AppendElems
  <2> QED
    BY <1>2, <2>1, <2>2
<1>5. /\ UNCHANGED <<queued, startOps, nodeVars, reg, s2n, left>>
      /\ UNCHANGED <<run, reason, confirmed, stopDone>>
      /\ n2s[c] # <<>> /\ n2s' = [n2s EXCEPT ![c] = Tail(@)]
  BY DEF Receive, storeVars, runVars
<1>6. \A d \in Conns : ToSet(n2s'[d]) \subseteq ToSet(n2s[d])
  BY <1>0, <1>5, TakesFrame
<1> QED
  BY <1>3, <1>4, <1>5, <1>6, RowsAlone, BudgetKept, BindingEnds

\* One frame of the work is taken.
LEMMA WorkEnds ==
  ASSUME DispatchInv, DispatchInv', EndInv, FaultsStay, NEW c \in Conns, binding[c].work # <<>>,
         NEW b, b.work = Tail(binding[c].work), binding' = [binding EXCEPT ![c] = b],
         s2n' = s2n \/ \E g \in Frames : /\ g.op # "start" /\ s2n' = Sent(c, g)
                                         /\ CommandOK(g, c) /\ RefusalOK(g)',
         WorkUnchanged, RowsStay,
         \A r \in Runs : Resolved(r)' \/ Stored(r)' => Signalled(r) \/ Ended(r)'
  PROVE  EndStep
<1>1. \A f \in ToSet(b.work) : f \in ToSet(binding[c].work)
  BY TailElems DEF DispatchInv, Types, ServerTypes, Bindings
<1>2. UNCHANGED <<nodeVars, reg, queued, startOps, n2s>> /\ \A r \in Runs : run'[r] = None => run[r] = None
  BY DEF WorkUnchanged, RowsStay
<1> QED
  BY <1>1, <1>2, BindingEnds

\* What the head of the work tells is known.
LEMMA HeadTells ==
  ASSUME DispatchInv, NEW c \in Conns, NEW op, Working(c, op), NEW f, f = Head(binding[c].work)
  PROVE  /\ binding[c].work # <<>> /\ f \in Frames /\ f \in ToSet(binding[c].work)
         /\ f.run \in Runs /\ f.op = op /\ (Tells(f) => Signalled(f.run))
BY WorkHead DEF DispatchInv, Working, Heard, Signalled

\* A lost resume tells nothing, one that found no process does.
LEMMA LostRunEnds ==
  ASSUME RowsInv, DispatchInv, DispatchInv', EndInv, NEW c \in Conns,
         WorkResumeRejected(c) \/ WorkResumeTimeout(c)
  PROVE  EndStep
<1>0. binding \in [Conns -> Bindings] /\ binding[c] \in Bindings
  BY DEF DispatchInv, Types, ServerTypes
<1>1. PICK f : f = Head(binding[c].work)
  OBVIOUS
<1>2. PICK r : r = f.run
  OBVIOUS
<1>3. /\ binding[c].work # <<>> /\ r \in Runs /\ f \in ToSet(binding[c].work)
      /\ Tells(f) => Signalled(r)
  BY <1>1, <1>2, HeadTells DEF WorkResumeRejected, WorkResumeTimeout
<1>4. /\ \E e \in BOOLEAN : FailRunDaemonDisconnect(r, e)
      /\ s2n' = s2n /\ left' = left /\ stopDone' = stopDone /\ WorkUnchanged
  BY <1>1, <1>2 DEF WorkResumeRejected, WorkResumeTimeout
<1>5. RowsStay /\ RunHandler(r)
  BY <1>3, <1>4, DisconnectRows DEF RunHandler, DispatchInv, Types
<1>6. \E b : b.work = Tail(binding[c].work) /\ binding' = [binding EXCEPT ![c] = b]
  <2>1. CASE binding' = WorkDone(c)
    BY <1>0, <2>1 DEF Bindings, WorkDone
  <2>2. CASE binding' = [WorkDone(c) EXCEPT ![c].reconcile = @ \cup {r}]
    <3> DEFINE t == [binding[c] EXCEPT !.work = Tail(@)]
    <3>1. binding' = [binding EXCEPT ![c] = [t EXCEPT !.reconcile = @ \cup {r}]]
      BY <1>0, <2>2 DEF WorkDone
    <3>2. [t EXCEPT !.reconcile = @ \cup {r}].work = Tail(binding[c].work)
      BY <1>0 DEF Bindings
    <3> QED
      BY <3>1, <3>2
  <2> QED
    BY <1>1, <1>2, <2>1, <2>2 DEF WorkResumeRejected, WorkResumeTimeout
<1>7. Stored(r)' => Signalled(r)
  <2>1. CASE WorkResumeRejected(c)
    BY <1>1, <2>1, <1>3 DEF WorkResumeRejected, Working, Tells, EndInv, WorkTells
  <2>2. CASE WorkResumeTimeout(c)
    BY <1>1, <1>2, <2>2, <1>3, LossIsNoEnd DEF WorkResumeTimeout, Signalled
  <2> QED
    BY <2>1, <2>2
<1>8. \A x \in Runs : Resolved(x)' \/ Stored(x)' => Signalled(x)
  BY <1>3, <1>4, <1>5, <1>7, OthersStored DEF Resolved, Signalled
<1> QED
  BY <1>3, <1>4, <1>5, <1>6, <1>8, BudgetKept, WorkEnds

\* A start that was rejected left no process, and comes no more.
LEMMA RejectionIsEnd ==
  ASSUME RowsInv, DispatchInv, RejectInv, NEW c \in Conns, WorkStartRejected(c),
         NEW r, r = Head(binding[c].work).run
  PROVE  r \in Runs /\ Ended(r)'
<1>1. /\ r \in Runs /\ binding[c].work # <<>> /\ Refused(r)
      /\ \A d \in Conns : StartFrom(r, d) => d = c
      /\ <<r, c>> \notin startOps /\ StartOf(r) \notin ToSet(s2n[c])
      /\ <<c, StartOf(r)>> \notin nodeTodo
      /\ run[r] # None /\ r \notin queued /\ spawned[r] = 0
  BY RejectionAlone DEF WorkStartRejected, Working
<1>2. FailRunStart(r)
  BY RejectsAsStored DEF WorkStartRejected
<1>3. UNCHANGED <<queued, startOps, s2n, cur, alive, nodeTodo, nrun>>
  BY DEF WorkStartRejected, WorkUnchanged, nodeVars
<1>4. r \notin alive
  BY <1>1 DEF DispatchInv, EventsFollow, Streamed
<1>5. \A d \in Conns : ~(<<r, d>> \in startOps \/ StartOf(r) \in ToSet(s2n[d]))
                        /\ <<d, StartOf(r)>> \notin nodeTodo
  BY <1>1 DEF StartFrom
<1>6. run'[r] # None
  BY <1>1, <1>2, RejectRows DEF DispatchInv, Types, RowsStay
<1> QED
  BY <1>1, <1>3, <1>4, <1>5, <1>6 DEF Ended, Coming, Starting

LEMMA RejectionEnds ==
  ASSUME RowsInv, DispatchInv, DispatchInv', RejectInv, EndInv, NEW c \in Conns, WorkStartRejected(c)
  PROVE  EndStep
<1>0. binding \in [Conns -> Bindings] /\ binding[c] \in Bindings
  BY DEF DispatchInv, Types, ServerTypes
<1>1. PICK r : r = Head(binding[c].work).run
  OBVIOUS
<1>2. /\ r \in Runs /\ binding[c].work # <<>> /\ Refused(r)
      /\ \A d \in Conns : StartFrom(r, d) => d = c
      /\ <<r, c>> \notin startOps /\ StartOf(r) \notin ToSet(s2n[c])
      /\ <<c, StartOf(r)>> \notin nodeTodo
      /\ run[r] # None /\ r \notin queued /\ spawned[r] = 0
  BY <1>1, RejectionAlone DEF WorkStartRejected, Working
<1>3. RunHandler(r) /\ FailRunStart(r)
  BY <1>1, RejectsAsStored DEF WorkStartRejected
<1>4. s2n' = s2n /\ left' = left /\ stopDone' = stopDone /\ WorkUnchanged /\ binding' = WorkDone(c)
  BY DEF WorkStartRejected
<1>5. RowsStay
  BY <1>2, <1>3, RejectRows DEF DispatchInv, Types
<1>6. Ended(r)'
  BY <1>1, RejectionIsEnd
<1>7. \A x \in Runs : Resolved(x)' \/ Stored(x)' => Signalled(x) \/ Ended(x)'
  BY <1>2, <1>3, <1>4, <1>6, OthersStored DEF Resolved, Signalled
<1>8. \E b : b.work = Tail(binding[c].work) /\ binding' = [binding EXCEPT ![c] = b]
  BY <1>0, <1>4 DEF Bindings, WorkDone
<1> QED
  BY <1>2, <1>4, <1>5, <1>7, <1>8, BudgetKept, WorkEnds

\* A stop that was acknowledged did end the process.
LEMMA StopAckEnds ==
  ASSUME DispatchInv, DispatchInv', EndInv, NEW c \in Conns, WorkStopAck(c) PROVE EndStep
<1>0. binding \in [Conns -> Bindings] /\ binding[c] \in Bindings
  BY DEF DispatchInv, Types, ServerTypes
<1>1. PICK f : f = Head(binding[c].work)
  OBVIOUS
<1>2. /\ binding[c].work # <<>> /\ f.run \in Runs /\ f.op = "stopAck"
      /\ Tells(f) => Signalled(f.run)
  BY <1>1, HeadTells DEF WorkStopAck
<1>3. /\ UNCHANGED <<storeVars, s2n, left>> /\ WorkUnchanged
      /\ stopDone' = IF f.status = "accepted"
                     THEN stopDone \cup {w \in binding[c].wait : w[1] = f.run} ELSE stopDone
  BY <1>1 DEF WorkStopAck
<1>4. UNCHANGED <<run, reason, confirmed>> /\ RowsStay
  BY <1>3, QuietRows DEF storeVars, runVars, DispatchInv, Types
<1>5. \A x \in Runs : Resolved(x)' => Signalled(x)
  BY <1>2, <1>3 DEF Resolved, Signalled, Tells
<1>6. \A x \in Runs : Stored(x)' => Signalled(x)
  BY <1>4 DEF Stored, Signalled
<1>7. \E b : b.work = Tail(binding[c].work) /\ binding' = [binding EXCEPT ![c] = b]
  <2>1. PICK t : t = [binding[c] EXCEPT !.work = Tail(@)]
    OBVIOUS
  <2>2. binding' = [binding EXCEPT ![c] = StopSettled(c, t, f.run)]
    BY <1>0, <1>1, <2>1 DEF WorkStopAck, WorkDone
  <2>3. StopSettled(c, t, f.run).work = Tail(binding[c].work)
    BY <1>0, <2>1 DEF Bindings, StopSettled
  <2> QED
    BY <2>2, <2>3
<1> QED
  BY <1>2, <1>3, <1>4, <1>5, <1>6, <1>7, BudgetKept, WorkEnds

\* Only a fault refuses the start of a process.
LEMMA EventEnds ==
  ASSUME RowsInv, DispatchInv, DispatchInv', RejectInv, EndInv, NEW c \in Conns, WorkEvent(c)
  PROVE  EndStep
<1>0. binding \in [Conns -> Bindings] /\ binding[c] \in Bindings /\ RowTypes
  BY DEF DispatchInv, Types, ServerTypes
<1>1. PICK f : f = Head(binding[c].work)
  OBVIOUS
<1>2. /\ binding[c].work # <<>> /\ f \in Frames /\ f.run \in Runs /\ f.op = "event"
      /\ Tells(f) => Signalled(f.run)
      /\ EventOK(f) /\ f.n \in 0..2 /\ f.status \in Phases
  <2>1. /\ binding[c].work # <<>> /\ f \in Frames /\ f.run \in Runs /\ f.op = "event"
        /\ f \in ToSet(binding[c].work) /\ (Tells(f) => Signalled(f.run))
    BY <1>1, HeadTells DEF WorkEvent
  <2>2. EventOK(f)
    BY <2>1 DEF DispatchInv, EventsFollow, EventsUp
  <2> QED
    BY <2>1, <2>2 DEF Frames
<1>3. PICK r \in Runs : r = f.run
  BY <1>2
<1>4. \/ /\ IngestRunEvent(r, f.n, f.status) /\ left' = left
         /\ s2n' = Sent(c, Frame("receipt", r, f.n, "accepted"))
      \/ /\ IsDuplicate(r, f.n) /\ UNCHANGED storeVars /\ left' = left
         /\ s2n' = Sent(c, Frame("receipt", r, f.n,
                     IF receipts[r][f.n] = f.status THEN "accepted" ELSE "rejected"))
      \/ /\ Spend("fault") /\ UNCHANGED storeVars
         /\ s2n' = Sent(c, Frame("receipt", r, f.n, "rejected"))
  BY <1>1, <1>3 DEF WorkEvent
<1>5. WorkUnchanged /\ stopDone' = stopDone /\ binding' = WorkDone(c)
  BY DEF WorkEvent
<1>6. FaultsStay
  BY <1>4, BudgetKept, BudgetSpent
<1>7. RowsStay
  BY <1>2, DispatchAssumption, <1>0, <1>4, IngestRows, QuietRows DEF DispatchAssumption
<1>8. \E g \in Frames : g.op # "start" /\ s2n' = Sent(c, g) /\ CommandOK(g, c) /\ RefusalOK(g)'
  <2>1. PICK v \in {"accepted", "rejected"} :
          /\ s2n' = Sent(c, Frame("receipt", r, f.n, v))
          /\ v # "accepted" /\ f.n = 0 => left'.fault = 0
    <3>1. IsDuplicate(r, f.n) /\ f.n = 0 => receipts[r][f.n] = f.status
      BY <1>2, <1>3 DEF IsDuplicate, EventOK, DispatchInv, EventsFollow, Streamed
    <3> QED
      BY <1>4, <3>1, BudgetSpent
  <2>2. PICK g : g = Frame("receipt", r, f.n, v)
    OBVIOUS
  <2>3. g \in Frames
    BY <1>2, <2>2, FrameKinds
  <2>4. g.op = "receipt" /\ g.n = f.n /\ g.status = v
    BY <2>2 DEF Frame
  <2> QED
    BY <2>1, <2>2, <2>3, <2>4 DEF CommandOK, RefusalOK
<1>9. Stored(r)' => Signalled(r)
  <2>1. CASE f.status # "started"
    BY <1>2, <1>3, <2>1 DEF Tells
  <2>2. CASE f.status = "started" /\ IngestRunEvent(r, f.n, f.status)
    <3>1. \/ UNCHANGED runVars
          \/ /\ run[r] \in RunActive /\ UNCHANGED <<reason, confirmed>>
             /\ run' = [run EXCEPT ![r] = FromQueued(r, "process_started")]
      BY <2>2 DEF IngestRunEvent, IngestLifecycle, IngestSettled, IngestStarted, IngestCompleted,
                  IngestFailedBeforeStart, IngestFailed, IngestCancelled, ReconcileDisconnected
    <3>2. CASE UNCHANGED runVars
      BY <3>2 DEF Stored, Signalled, runVars
    <3>3. CASE /\ run[r] \in RunActive /\ UNCHANGED <<reason, confirmed>>
               /\ run' = [run EXCEPT ![r] = FromQueued(r, "process_started")]
      <4>1. run'[r] = "running"
        BY <1>0, <3>3, RunEdges, StatusFacts DEF FromQueued, CasRun, RowTypes, RowsInv, RunShape
      <4> QED
        BY <3>3, <4>1 DEF Stored, Signalled
    <3> QED
      BY <3>1, <3>2, <3>3
  <2>3. CASE UNCHANGED storeVars
    BY <2>3 DEF Stored, Signalled, storeVars, runVars
  <2> QED
    BY <1>4, <2>1, <2>2, <2>3
<1>10. \A x \in Runs \ {r} : Stored(x)' => Stored(x)
  <2>1. CASE UNCHANGED storeVars
    BY <2>1 DEF Stored, storeVars, runVars
  <2>2. CASE IngestRunEvent(r, f.n, f.status)
    <3>1. f.n \in Seqs /\ (f.status \in {"completed", "cancelled"} => StartAccepted(r))
      BY <1>1, <1>3, EventHead DEF WorkEvent
    <3>2. RunHandler(r)
      BY <1>2, <2>2, <3>1 DEF RunHandler, NodeDelivers, Bodies
    <3> QED
      BY <3>2, OthersStored
  <2> QED
    BY <1>4, <2>1, <2>2
<1>11. \A x \in Runs : Resolved(x)' \/ Stored(x)' => Signalled(x)
  BY <1>5, <1>9, <1>10 DEF Resolved, Signalled
<1>12. \E b : b.work = Tail(binding[c].work) /\ binding' = [binding EXCEPT ![c] = b]
  BY <1>0, <1>5 DEF Bindings, WorkDone
<1> QED
  BY <1>2, <1>5, <1>6, <1>7, <1>8, <1>11, <1>12, WorkEnds

-------------------------------------------------------------------------------
(* Steps of the daemon *)

\* A step of the daemon says nothing false and starts what was to start.
LEMMA DaemonEnds ==
  ASSUME DispatchInv, DispatchInv', EndInv, UNCHANGED <<storeVars, serverVars>>, FaultsStay,
         cur' \in {0, cur}, NoOrphan',
         \A c \in Conns :
           /\ ToSet(s2n'[c]) \subseteq ToSet(s2n[c])
           /\ \A f : <<c, f>> \in nodeTodo' => <<c, f>> \in nodeTodo \/ f \in ToSet(s2n[c])
           /\ \A f \in ToSet(n2s'[c]) :
                f \in ToSet(n2s[c]) \/ (Tells(f) => Signalled(f.run) \/ Ended(f.run)'),
         \A r \in Runs :
           /\ AtDaemon(r)' => Signalled(r) \/ Ended(r)'
           /\ r \in alive' => r \in alive \/ Starting(r)
           /\ Starting(r)' => Starting(r) \/ (Coming(r) /\ nrun[r] # "finished")
           /\ cur' # 0 /\ nrun[r] = "finished" => nrun'[r] = "finished"
  PROVE  EndStep
BY RowsAlone, EndsKeep DEF serverVars, storeVars, runVars, StartsMove, FaultsStay

\* A run with a process, now or before, has no start on its way.
LEMMA SpawnedIsThrough ==
  ASSUME DispatchInv, NEW r \in Runs, spawned[r] # 0
  PROVE  run[r] # None /\ ~Coming(r) /\ ~Starting(r)
BY DEF DispatchInv, OnePlace, Coming, Dispatching, OnWire

\* A handle, or a process, was started.
LEMMA LiveIsThrough ==
  ASSUME DispatchInv, NEW r \in Runs, r \in alive \/ nrun[r] = "live"
  PROVE  run[r] # None /\ ~Coming(r) /\ ~Starting(r)
BY SpawnedIsThrough DEF DispatchInv, EventsFollow, Streamed

\* It ends, and no start is sent at that.
LEMMA LiveEnds ==
  ASSUME DispatchInv, NEW r \in Runs, r \in alive \/ nrun[r] = "live", r \notin alive',
         UNCHANGED <<storeVars, serverVars, cur>>, nodeTodo' \subseteq nodeTodo,
         \A c \in Conns : ToSet(s2n'[c]) \subseteq ToSet(s2n[c])
  PROVE  Ended(r)'
<1>1. run[r] # None /\ ~Coming(r) /\ ~Starting(r)
  BY LiveIsThrough
<1>2. UNCHANGED <<run, reg, queued, startOps>>
  BY DEF serverVars, storeVars, runVars
<1>3. ~Coming(r)'
  BY <1>1, <1>2 DEF Coming
<1>4. ~Starting(r)'
  BY <1>1 DEF Starting
<1> QED
  BY <1>1, <1>2, <1>3, <1>4 DEF Ended

\* Nothing goes out, and nothing new is taken up.
LEMMA SilentEnds ==
  ASSUME DispatchInv, DispatchInv', EndInv,
         \/ \E c \in Conns : NodeDrop(c)
         \/ NodeRestart
         \/ \E r \in Runs : ProcessEnds(r)
  PROVE  EndStep
<1>0. NetTypes /\ NodeTypes /\ None \notin Bodies
  BY StoreAssumption DEF DispatchInv, Types, StoreAssumption
<1>1. CASE \E c \in Conns : NodeDrop(c)
  <2>1. PICK c \in Conns : NodeDrop(c)
    BY <1>1
  <2>2. /\ UNCHANGED <<storeVars, serverVars, nrun, alive, exit, pend, nodeTodo, n2s, left>>
        /\ cur' = 0 /\ s2n' = [s2n EXCEPT ![c] = <<>>]
    BY <2>1 DEF NodeDrop
  <2>3. \A d \in Conns : ToSet(s2n'[d]) \subseteq ToSet(s2n[d])
    BY <1>0, <2>2, NoElems DEF NetTypes
  <2>4. NoOrphan' /\ \A r \in Runs : (AtDaemon(r)' => AtDaemon(r)) /\ (Starting(r)' => Starting(r))
    BY <2>2 DEF NoOrphan, EndInv, AtDaemon, Starting
  <2> QED
    BY <2>2, <2>3, <2>4, BudgetKept, DaemonEnds DEF Signalled
<1>2. CASE NodeRestart
  <2>1. /\ UNCHANGED <<storeVars, serverVars, n2s>> /\ Spend("restart")
        /\ cur' = 0 /\ alive' = {} /\ nodeTodo' = {} /\ s2n' = [c \in Conns |-> <<>>]
        /\ exit' = [r \in Runs |-> None] /\ pend' = [r \in Runs |-> NoEvent]
    BY <1>2 DEF NodeRestart
  <2>2. \A d \in Conns : ToSet(s2n'[d]) = {}
    BY <2>1, NoElems
  <2>3. NoOrphan' /\ \A r \in Runs : ~AtDaemon(r)' /\ ~Starting(r)'
    BY <2>1 DEF NoOrphan, AtDaemon, Starting
  <2> QED
    BY <2>1, <2>2, <2>3, BudgetSpent, DaemonEnds DEF Signalled
<1>3. CASE \E r \in Runs : ProcessEnds(r)
  <2>1. PICK r \in Runs, body \in {"completed", "failed"} : ProcessExit(r, body)
    BY <1>3 DEF ProcessEnds
  <2>2. /\ r \in alive /\ alive' = alive \ {r} /\ exit' = [exit EXCEPT ![r] = body]
        /\ UNCHANGED <<storeVars, serverVars, cur, nrun, pend, nodeTodo, s2n, n2s, left>>
    BY <2>1 DEF ProcessExit, netVars
  <2>3. Ended(r)'
    BY <2>2, LiveEnds
  <2>4. \A x \in Runs \ {r} : AtDaemon(x)' => AtDaemon(x)
    BY <1>0, <2>2 DEF AtDaemon, NodeTypes
  <2>5. NoOrphan' /\ \A x \in Runs : Starting(x)' => Starting(x)
    BY <2>2 DEF NoOrphan, EndInv, Starting
  <2> QED
    BY <2>2, <2>3, <2>4, <2>5, BudgetKept, DaemonEnds DEF Signalled
<1> QED
  BY <1>1, <1>2, <1>3

\* The terminal event goes out after the exit.
LEMMA TerminalEnds ==
  ASSUME DispatchInv, DispatchInv', EndInv, NEW r \in Runs, SendTerminal(r) PROVE EndStep
<1>1. PICK g : g = Frame("event", r, 1, exit[r])
  OBVIOUS
<1>2. /\ exit[r] # None /\ n2s' = Answer(cur, g)
      /\ pend' = [pend EXCEPT ![r] = Event(1, exit[r], FALSE)]
      /\ UNCHANGED <<storeVars, serverVars, cur, nrun, alive, exit, nodeTodo, s2n, left>>
  BY <1>1 DEF SendTerminal, SendEvent, Event
<1>3. g \in Frames /\ g.run = r
  <2>1. exit[r] \in Phases /\ 1 \in 0..2
    BY <1>2 DEF DispatchInv, Types, NodeTypes, Phases
  <2>2. g \in Frames
    BY <1>1, <2>1, FrameKinds
  <2> QED
    BY <1>1, <2>2 DEF Frame
<1>4. Signalled(r)
  BY <1>2 DEF Signalled, AtDaemon
<1>5. \A d \in Conns : \A f \in ToSet(n2s'[d]) : f \in ToSet(n2s[d]) \/ Signalled(f.run)
  BY <1>2, <1>3, <1>4, AnswerIs
<1>6. \A x \in Runs \ {r} : AtDaemon(x)' => AtDaemon(x)
  BY <1>2 DEF AtDaemon, DispatchInv, Types, NodeTypes
<1>7. NoOrphan' /\ \A x \in Runs : Starting(x)' => Starting(x)
  BY <1>2 DEF NoOrphan, EndInv, Starting
<1> QED
  BY <1>2, <1>4, <1>5, <1>6, <1>7, BudgetKept, DaemonEnds DEF Signalled

\* A command the daemon has taken up.
LEMMA CommandTodo ==
  ASSUME DispatchInv, EndInv, NEW h \in nodeTodo
  PROVE  /\ h[1] \in Conns /\ h[2] \in Frames /\ h[2].run \in Runs /\ h[2].n \in Nat
         /\ CommandOK(h[2], h[1])
BY NodeTodoFrames DEF DispatchInv, Types, EndInv, Commands

\* A run that has no handle and is not starting has no process.
LEMMA NoHandle ==
  ASSUME DispatchInv, EndInv, NEW r \in Runs, nrun[r] \notin {"live", "starting"}
  PROVE  r \notin alive /\ ~Starting(r)
  BY DEF EndInv, NoOrphan, DispatchInv, InStepHere

\* The answer to a command, and what happens to its run.
LEMMA AnswerEnds ==
  ASSUME DispatchInv, DispatchInv', EndInv, FaultsStay, NEW c \in Conns, NEW r \in Runs,
         NEW g \in Frames, g.run = r, n2s' = Answer(c, g),
         UNCHANGED <<storeVars, serverVars, cur, pend, s2n>>, nodeTodo' \subseteq nodeTodo,
         NoOrphan', alive' \subseteq alive, Tells(g) /\ Up(c) => Ended(r)',
         exit' = exit \/ (Ended(r)' /\ \A x \in Runs \ {r} : exit'[x] = exit[x]),
         nrun' = nrun \/ (nrun[r] # "finished" /\ \A x \in Runs \ {r} : nrun'[x] = nrun[x])
           \/ nrun' = [nrun EXCEPT ![r] = "finished"]
  PROVE  EndStep
<1>1. \A d \in Conns : \A f \in ToSet(n2s'[d]) :
        f \in ToSet(n2s[d]) \/ (Tells(f) => Signalled(f.run) \/ Ended(f.run)')
  BY AnswerIs
<1>2. \A x \in Runs : AtDaemon(x)' => AtDaemon(x) \/ Ended(x)'
  BY DEF AtDaemon
<1>3. \A x \in Runs : (Starting(x)' => Starting(x)) /\ (nrun[x] = "finished" => nrun'[x] = "finished")
  BY DEF Starting, DispatchInv, Types, NodeTypes
<1> QED
  BY <1>1, <1>2, <1>3, DaemonEnds DEF Signalled

\* run.stop is answered once the process has gone.
LEMMA StopAnswered ==
  ASSUME DispatchInv, DispatchInv', EndInv, NEW h \in nodeTodo, OnRunStop(h[1], h[2]) PROVE EndStep
<1>0. nrun \in [Runs -> {"none", "starting", "live", "finished"}]
      /\ exit \in [Runs -> {None, "completed", "failed", "cancelled"}]
  BY DEF DispatchInv, Types, NodeTypes
<1>1. PICK f \in Frames, c \in Conns : f = h[2] /\ c = h[1]
  BY CommandTodo
<1>2. PICK r \in Runs : r = f.run /\ run[r] # None /\ nrun[r] # "starting"
  BY <1>1, CommandTodo DEF OnRunStop, CommandOK
<1>3. PICK yes, no : yes = Frame("stopAck", r, f.n, "accepted") /\ no = Frame("stopAck", r, f.n, "rejected")
  OBVIOUS
<1>4. /\ yes \in Frames /\ no \in Frames /\ yes.run = r /\ no.run = r /\ ~Tells(no)
  BY <1>1, <1>3, CommandTodo, FrameKinds DEF Frame, Tells
<1>5. UNCHANGED <<storeVars, serverVars, cur, pend, s2n>> /\ nodeTodo' \subseteq nodeTodo
  BY DEF OnRunStop
<1>6. \/ /\ nrun[r] # "live" /\ nrun' = [nrun EXCEPT ![r] = "finished"]
         /\ n2s' = Answer(c, yes) /\ UNCHANGED <<alive, exit, left>>
      \/ /\ nrun[r] = "live" /\ Kill(r) /\ n2s' = Answer(c, yes) /\ UNCHANGED <<nrun, left>>
      \/ /\ nrun[r] = "live" /\ Spend("fault") /\ n2s' = Answer(c, no) /\ UNCHANGED <<nrun, alive, exit>>
  BY <1>1, <1>2, <1>3 DEF OnRunStop
<1>7. CASE /\ nrun[r] # "live" /\ nrun' = [nrun EXCEPT ![r] = "finished"]
           /\ n2s' = Answer(c, yes) /\ UNCHANGED <<alive, exit, left>>
  <2>1. r \notin alive /\ ~Starting(r)
    BY <1>2, <1>7, NoHandle
  <2>2. run'[r] # None /\ nrun'[r] = "finished"
    BY <1>0, <1>2, <1>5, <1>7 DEF storeVars, runVars
  <2>3. Ended(r)'
    BY <1>5, <1>7, <2>1, <2>2 DEF Ended, Starting
  <2>4. NoOrphan'
    BY <1>0, <1>7, <2>1 DEF NoOrphan, EndInv
  <2> QED
    BY <1>4, <1>5, <1>7, <2>3, <2>4, BudgetKept, AnswerEnds
<1>8. CASE nrun[r] = "live" /\ Kill(r) /\ n2s' = Answer(c, yes) /\ UNCHANGED <<nrun, left>>
  BY <1>0, <1>8, <1>5, LiveEnds, <1>4, BudgetKept, AnswerEnds DEF Kill, NoOrphan, EndInv
<1>9. CASE /\ nrun[r] = "live" /\ Spend("fault") /\ n2s' = Answer(c, no)
           /\ UNCHANGED <<nrun, alive, exit>>
  BY <1>9, <1>4, <1>5, BudgetSpent, AnswerEnds DEF NoOrphan, EndInv
<1> QED
  BY <1>6, <1>7, <1>8, <1>9

\* run.resume is answered: no handle, no process, and no start after it.
LEMMA ResumeAnswered ==
  ASSUME DispatchInv, DispatchInv', EndInv, NEW h \in nodeTodo, OnRunResume(h[1], h[2]) PROVE EndStep
<1>1. PICK f \in Frames, c \in Conns : f = h[2] /\ c = h[1]
  BY CommandTodo
<1>2. PICK r \in Runs : r = f.run /\ run[r] # None /\ nrun[r] # "starting" /\ Unsent(r, c)
  BY <1>1, CommandTodo DEF OnRunResume, CommandOK
<1>3. PICK g : g = Frame("resumeAck", r, 0, IF nrun[r] = "live" THEN "accepted" ELSE "process_exited")
  OBVIOUS
<1>4. g \in Frames /\ g.run = r /\ (Tells(g) => nrun[r] # "live")
  BY <1>3, FrameKinds DEF Frame, Tells
<1>5. /\ UNCHANGED <<storeVars, serverVars, cur, pend, s2n, nrun, alive, exit, left>>
      /\ nodeTodo' \subseteq nodeTodo /\ n2s' = Answer(c, g)
  BY <1>1, <1>2, <1>3 DEF OnRunResume
<1>6. ASSUME Tells(g), Up(c) PROVE Ended(r)'
  <2>1. r \notin alive /\ ~Starting(r)
    BY <1>2, <1>4, <1>6, NoHandle
  <2>2. ~Coming(r)
    BY <1>2, <1>6 DEF Coming, Unsent, Up
  <2>3. UNCHANGED <<run, reg, queued, startOps>>
    BY <1>5 DEF serverVars, storeVars, runVars
  <2>4. ~Coming(r)'
    BY <1>5, <2>2, <2>3 DEF Coming
  <2> QED
    BY <1>2, <1>5, <2>1, <2>3, <2>4 DEF Ended, Starting
<1>7. NoOrphan'
  BY <1>5 DEF NoOrphan, EndInv
<1> QED
  BY <1>4, <1>5, <1>6, <1>7, BudgetKept, AnswerEnds

\* A start comes to its end at the daemon.
LEMMA StartTodo ==
  ASSUME DispatchInv, EndInv, NEW h \in nodeTodo, h[2].op = "start", NEW r, h[2].run = r
  PROVE  r \in Runs /\ h[1] \in Conns /\ Starting(r) /\ nrun[r] = "starting" /\ r \notin alive
<1>1. h = <<h[1], h[2]>> /\ h[1] \in Conns /\ h[2] \in Frames /\ r \in Runs
  BY NodeTodoFrames DEF DispatchInv, Types
<1>2. h[2] = StartOf(r)
  BY <1>1 DEF Frames, StartOf, Frame
<1>3. Starting(r)
  BY <1>1, <1>2 DEF Starting
<1> QED
  BY <1>1, <1>3 DEF DispatchInv, InStepHere, EndInv, NoOrphan

LEMMA StartFailsEnds ==
  ASSUME DispatchInv, DispatchInv', EndInv, NEW r \in Runs, StartFails(r) PROVE EndStep
<1>1. PICK h \in nodeTodo : /\ h[2].op = "start" /\ h[2].run = r
                            /\ nodeTodo' = nodeTodo \ {h}
                            /\ nrun' = [nrun EXCEPT ![r] = "none"]
                            /\ n2s' = Answer(h[1], Frame("startAck", r, 0, "rejected"))
                            /\ UNCHANGED <<storeVars, serverVars, cur, alive, exit, pend, s2n, left>>
  BY DEF StartFails
<1>2. h[1] \in Conns /\ nrun[r] = "starting" /\ r \notin alive
  BY <1>1, StartTodo
<1>3. PICK g : g = RejectOf(r)
  OBVIOUS
<1>4. g \in Frames /\ g.run = r /\ ~Tells(g) /\ n2s' = Answer(h[1], g)
  BY <1>1, <1>3, FrameKinds DEF RejectOf, Frame, Tells
<1>5. nrun \in [Runs -> {"none", "starting", "live", "finished"}]
  BY DEF DispatchInv, Types, NodeTypes
<1>6. NoOrphan' /\ \A x \in Runs \ {r} : nrun'[x] = nrun[x]
  BY <1>1, <1>2, <1>5 DEF NoOrphan, EndInv
<1> QED
  BY <1>1, <1>2, <1>4, <1>6, BudgetKept, AnswerEnds

LEMMA StartSucceedsEnds ==
  ASSUME DispatchInv, DispatchInv', EndInv, NEW r \in Runs, StartSucceeds(r) PROVE EndStep
<1>0. /\ nrun \in [Runs -> {"none", "starting", "live", "finished"}]
      /\ exit \in [Runs -> {None, "completed", "failed", "cancelled"}]
      /\ pend \in [Runs -> [seq : 0..2, body : Phases \cup {None}, last : BOOLEAN]]
      /\ n2s \in [Conns -> Seq(Frames)] /\ cur \in {0} \cup Conns
  BY DEF DispatchInv, Types, NodeTypes, NetTypes
<1> DEFINE ack == Frame("startAck", r, 0, "accepted")
           started == Frame("event", r, 0, "started")
<1>1. PICK h \in nodeTodo :
        /\ h[2].op = "start" /\ h[2].run = r /\ nodeTodo' = nodeTodo \ {h}
        /\ nrun' = [nrun EXCEPT ![r] = "live"] /\ alive' = alive \cup {r}
        /\ exit' = [exit EXCEPT ![r] = None]
        /\ pend' = [pend EXCEPT ![r] = Event(0, "started", FALSE)]
        /\ UNCHANGED <<storeVars, serverVars, cur, s2n, left>>
        /\ \/ n2s' = n2s
           \/ Up(cur) /\ n2s' = [n2s EXCEPT ![cur] = @ \o <<started>>]
           \/ Up(cur) /\ n2s' = [n2s EXCEPT ![cur] = @ \o <<ack, started>>]
  BY DEF StartSucceeds
<1>2. Starting(r) /\ nrun[r] = "starting"
  BY <1>1, StartTodo
<1>3. ack \in Frames /\ started \in Frames /\ ~Tells(ack) /\ ~Tells(started)
  <2>1. 0 \in 0..2 /\ "started" \in Phases
    BY DEF Phases
  <2> QED
    BY <2>1, FrameKinds DEF Frame, Tells
<1> HIDE DEF ack, started
<1>4. \A d \in Conns : \A f \in ToSet(n2s'[d]) : f \in ToSet(n2s[d]) \/ ~Tells(f)
  <2>1. ASSUME NEW d \in Conns
        PROVE  \A f \in ToSet(n2s'[d]) : f \in ToSet(n2s[d]) \/ f = ack \/ f = started
    <3>1. CASE n2s'[d] = n2s[d]
      BY <3>1
    <3>2. CASE n2s'[d] = Append(n2s[d], started)
      BY <1>0, <1>3, <3>2, AppendElems
    <3>3. CASE n2s'[d] = Append(Append(n2s[d], ack), started)
      <4>1. PICK q : q = Append(n2s[d], ack)
        OBVIOUS
      <4>2. q \in Seq(Frames) /\ ToSet(q) = ToSet(n2s[d]) \cup {ack}
        BY <1>0, <1>3, <4>1, AppendElems
      <4>3. ToSet(Append(q, started)) = ToSet(q) \cup {started}
        BY <1>3, <4>2, AppendElems
      <4> QED
        BY <3>3, <4>1, <4>2, <4>3
    <3>4. /\ n2s[d] \o <<started>> = Append(n2s[d], started)
          /\ n2s[d] \o <<ack, started>> = Append(Append(n2s[d], ack), started)
      BY <1>0, <1>3, ConcatIsAppend
    <3> QED
      BY <1>0, <1>1, <3>1, <3>2, <3>3, <3>4
  <2> QED
    BY <1>3, <2>1
<1>5. ~AtDaemon(r)' /\ \A x \in Runs \ {r} : AtDaemon(x)' => AtDaemon(x)
  BY <1>0, <1>1 DEF AtDaemon, Event
<1>6. NoOrphan' /\ \A x \in Runs : nrun[x] = "finished" => nrun'[x] = "finished"
  BY <1>0, <1>1, <1>2 DEF NoOrphan, EndInv
<1>7. \A x \in Runs : Starting(x)' => Starting(x)
  BY <1>1 DEF Starting
<1> QED
  BY <1>1, <1>2, <1>4, <1>5, <1>6, <1>7, BudgetKept, DaemonEnds DEF Signalled

\* A command is taken up: the start of a run the daemon does not know, once.
LEMMA CommandEnds ==
  ASSUME DispatchInv, DispatchInv', EndInv, NEW c \in Conns, NodeReceive(c) PROVE EndStep
<1>0. nrun \in [Runs -> {"none", "starting", "live", "finished"}]
  BY DEF DispatchInv, Types, NodeTypes
<1>1. PICK f : f = Head(s2n[c])
  OBVIOUS
<1>2. /\ f \in Frames /\ f \in ToSet(s2n[c]) /\ f.run \in Runs
      /\ \A d \in Conns : ToSet(s2n'[d]) \subseteq ToSet(s2n[d])
  BY <1>1, FrameTaken DEF NodeReceive
<1>3. PICK g : g = Frame("startAck", f.run, 0, "accepted")
  OBVIOUS
<1>4. g \in Frames /\ ~Tells(g)
  BY <1>2, <1>3, FrameKinds DEF Frame, Tells
<1>5. /\ UNCHANGED <<storeVars, serverVars, cur, alive, exit, pend, left>> /\ cur = c
      /\ n2s' = n2s \/ n2s' = Answer(c, g)
      /\ \/ nodeTodo' = nodeTodo /\ nrun' = nrun
         \/ nodeTodo' = nodeTodo \cup {<<c, f>>} /\ nrun' = nrun /\ f.op # "start"
         \/ /\ f.op = "start" /\ nrun[f.run] = "none" /\ nrun' = [nrun EXCEPT ![f.run] = "starting"]
            /\ nodeTodo' = nodeTodo \cup {<<c, f>>}
  BY <1>1, <1>3 DEF NodeReceive, OnRunStart
<1>6. \A d \in Conns : \A x \in ToSet(n2s'[d]) : x \in ToSet(n2s[d]) \/ ~Tells(x)
  <2>1. CASE n2s' = n2s
    BY <2>1
  <2>2. CASE n2s' = Answer(c, g)
    BY <1>4, <2>2, AnswerIs
  <2> QED
    BY <1>5, <2>1, <2>2
<1>7. NoOrphan' /\ \A x \in Runs : nrun[x] = "finished" => nrun'[x] = "finished"
  BY <1>0, <1>2, <1>5 DEF EndInv, NoOrphan, DispatchInv, Types, NodeTypes
<1>8. ASSUME NEW x \in Runs, Starting(x)', ~Starting(x) PROVE Coming(x) /\ nrun[x] # "finished"
  <2>1. <<c, StartOf(x)>> \in nodeTodo' /\ StartOf(x) = f
    BY <1>5, <1>8 DEF Starting
  <2>2. f.op = "start" /\ f.run = x
    BY <2>1 DEF StartOf, Frame
  <2>3. Coming(x)
    BY <1>2, <1>5, <2>1 DEF Coming
  <2> QED
    BY <1>5, <1>8, <2>2, <2>3 DEF Starting
<1>9. \A x \in Runs : AtDaemon(x)' => AtDaemon(x)
  BY <1>5 DEF AtDaemon
<1>10. \A d \in Conns : \A x : <<d, x>> \in nodeTodo' => <<d, x>> \in nodeTodo \/ x \in ToSet(s2n[d])
  BY <1>2, <1>5
<1> QED
  BY <1>2, <1>5, <1>6, <1>7, <1>8, <1>9, <1>10, BudgetKept, DaemonEnds DEF Signalled

\* The receipt of an event: the process of a stream that ends is stopped first.
LEMMA ReceiptEnds ==
  ASSUME DispatchInv, DispatchInv', EndInv, NEW c \in Conns, NodeReceipt(c) PROVE EndStep
<1>0. /\ nrun \in [Runs -> {"none", "starting", "live", "finished"}]
      /\ exit \in [Runs -> {None, "completed", "failed", "cancelled"}]
      /\ pend \in [Runs -> [seq : 0..2, body : Phases \cup {None}, last : BOOLEAN]]
  BY DEF DispatchInv, Types, NodeTypes
<1>1. PICK f : f = Head(s2n[c])
  OBVIOUS
<1>2. /\ f \in Frames /\ f \in ToSet(s2n[c]) /\ f.run \in Runs /\ f.op = "receipt"
      /\ \A d \in Conns : ToSet(s2n'[d]) \subseteq ToSet(s2n[d])
  BY <1>1, FrameTaken DEF NodeReceipt
<1>3. PICK r \in Runs : r = f.run
  BY <1>2
<1>4. UNCHANGED <<storeVars, serverVars, cur, nodeTodo>>
  BY DEF NodeReceipt
<1>5. \/ UNCHANGED <<nrun, pend, alive, exit, n2s, left>>
      \/ pend[r] # NoEvent /\ ReceiptAccepted(r)
      \/ pend[r] # NoEvent /\ pend[r].seq = f.n /\ f.status # "accepted" /\ ReceiptRejected(r)
  BY <1>1, <1>3 DEF NodeReceipt
<1>6. /\ pend[r] # NoEvent => /\ nrun[r] = "live" /\ pend[r].body \in Phases
                              /\ pend[r].seq = 0 <=> pend[r].body = "started"
                              /\ ~pend[r].last => pend[r].seq <= 1
  BY DEF DispatchInv, EventsFollow, Streamed
<1>7. AtDaemon(r) => r \notin alive
  BY DEF EndInv, Signals, Signalled, Ended
<1>8. \A x \in Runs : Starting(x)' => Starting(x)
  BY <1>4 DEF Starting
<1>9. CASE UNCHANGED <<nrun, pend, alive, exit, n2s, left>>
  BY <1>9, <1>2, <1>4, <1>8, BudgetKept, DaemonEnds DEF NoOrphan, EndInv, AtDaemon, Signalled
<1>10. CASE /\ pend[r] # NoEvent /\ pend' = [pend EXCEPT ![r] = NoEvent]
            /\ UNCHANGED <<alive, exit, n2s, left>>
            /\ \/ nrun' = nrun
               \/ nrun' = [nrun EXCEPT ![r] = "finished"] /\ AtDaemon(r)
  <2>1. NoOrphan'
    BY <1>10, <1>0, <1>7 DEF EndInv, NoOrphan, DispatchInv, Types, NodeTypes
  <2>2. \A x \in Runs : AtDaemon(x)' => AtDaemon(x)
    BY <1>0, <1>10 DEF AtDaemon
  <2>3. \A x \in Runs : nrun[x] = "finished" => nrun'[x] = "finished"
    BY <1>0, <1>10
  <2> QED
    BY <1>2, <1>4, <1>8, <1>10, <2>1, <2>2, <2>3, BudgetKept, DaemonEnds DEF Signalled
<1>11. CASE /\ pend[r] # NoEvent /\ ~pend[r].last /\ Kill(r) /\ UNCHANGED <<nrun, left>>
            /\ LET e == Event(pend[r].seq + 1, "failed", TRUE) IN
                 pend' = [pend EXCEPT ![r] = e] /\ n2s' = SendEvent(r, e)
  <2>1. PICK g : g = Frame("event", r, pend[r].seq + 1, "failed")
    OBVIOUS
  <2>2. g \in Frames /\ g.run = r
    <3>1. pend[r].seq + 1 \in 0..2 /\ "failed" \in Phases
      BY <1>0, <1>6, <1>11 DEF Phases
    <3>2. g \in Frames
      BY <2>1, <3>1, FrameKinds
    <3> QED
      BY <2>1, <3>2 DEF Frame
  <2>3. n2s' = Answer(cur, g)
    BY <1>11, <2>1 DEF SendEvent, Event
  <2>4. /\ alive' = alive \ {r}
        /\ \A x \in Runs \ {r} : exit'[x] = exit[x] /\ pend'[x] = pend[x]
    BY <1>0, <1>11 DEF Kill
  <2>5. Ended(r)'
    BY <1>2, <1>4, <1>6, <1>11, <2>4, LiveEnds
  <2>6. NoOrphan'
    BY <1>11, <2>4 DEF NoOrphan, EndInv
  <2>7. \A x \in Runs \ {r} : AtDaemon(x)' => AtDaemon(x)
    BY <2>4 DEF AtDaemon
  <2>8. \A d \in Conns : \A x \in ToSet(n2s'[d]) : x \in ToSet(n2s[d]) \/ x = g
    BY <2>2, <2>3, AnswerIs
  <2> QED
    BY <1>2, <1>4, <1>8, <1>11, <2>2, <2>4, <2>5, <2>6, <2>7, <2>8, BudgetKept, DaemonEnds DEF Signalled
<1>12. CASE ReceiptAccepted(r) /\ pend[r] # NoEvent
  BY <1>0, <1>12, <1>10 DEF ReceiptAccepted, AtDaemon
<1>13. CASE pend[r] # NoEvent /\ pend[r].seq = f.n /\ f.status # "accepted" /\ ReceiptRejected(r)
  <2>1. CASE pend[r].last /\ nrun' = [nrun EXCEPT ![r] = "finished"]
             /\ pend' = [pend EXCEPT ![r] = NoEvent] /\ UNCHANGED <<alive, exit, n2s, left>>
    BY <1>13, <2>1, <1>10 DEF AtDaemon
  <2>2. CASE ~pend[r].last /\ r \in alive /\ Spend("fault")
    BY <1>7, <1>13, <2>2, <1>6, <1>2 DEF AtDaemon, EndInv, Commands, RefusalOK, Spend
  <2> QED
    BY <1>11, <1>13, <2>1, <2>2 DEF ReceiptRejected
<1> QED
  BY <1>5, <1>9, <1>12, <1>13

-------------------------------------------------------------------------------
(* A new socket *)

\* What is sent again are the events that wait at the daemon.
LEMMA PendingIsAtDaemon ==
  ASSUME NEW f \in ToSet(PendingFrames)
  PROVE  f.run \in Runs /\ (Tells(f) => AtDaemon(f.run))
<1> DEFINE T == {Frame("event", r, pend[r].seq, pend[r].body) : r \in {x \in Runs : pend[x] # NoEvent}}
<1>1. IsFiniteSet(T)
  <2> DEFINE R == {x \in Runs : pend[x] # NoEvent}
             g == [r \in R |-> Frame("event", r, pend[r].seq, pend[r].body)]
  <2>1. IsFiniteSet(R)
    BY DispatchAssumption, FS_Subset DEF DispatchAssumption
  <2>2. g \in Surjection(R, T)
    BY DEF Surjection
  <2> QED
    BY <2>1, <2>2, FS_Surjection
<1>2. f \in T
  BY <1>1, SetToSeqElems DEF PendingFrames
<1>3. PICK x \in {y \in Runs : pend[y] # NoEvent} : f = Frame("event", x, pend[x].seq, pend[x].body)
  BY <1>2
<1>4. f.op = "event" /\ f.run = x /\ f.status = pend[x].body
  BY <1>3 DEF Frame
<1> QED
  BY <1>3, <1>4 DEF Tells, AtDaemon

\* No start waits for the socket that opens, so that what ended stays so.
LEMMA ConnectEnds ==
  ASSUME DispatchInv, DispatchInv', RejectInv, EndInv, NEW c \in Conns, NodeConnect(c)
  PROVE  EndStep
<1>0. /\ binding \in [Conns -> Bindings] /\ n2s \in [Conns -> Seq(Frames)]
      /\ reg # 0 => binding[reg].side \in {"active", "ready"}
  BY DEF DispatchInv, Types, NetTypes, ServerTypes, InStepHere
<1>1. /\ binding[c].side = "none" /\ cur' = c
      /\ binding' = [binding EXCEPT ![c].side = "open"]
      /\ n2s' = [n2s EXCEPT ![c] = PendingFrames]
      /\ UNCHANGED <<storeVars, reg, queued, startOps, stopDone, nrun, alive, exit, pend, nodeTodo, s2n, left>>
      /\ UNCHANGED <<run, reason, confirmed>>
  BY DEF NodeConnect, storeVars, runVars
<1>2. reg # c /\ c # 0
  BY <1>0, <1>1, DispatchAssumption DEF Conns, DispatchAssumption
<1>3. ASSUME NEW r \in Runs PROVE ~Coming(r)'
  BY <1>1, <1>2 DEF RejectInv, InOrder, Closed, StartFrom, Coming
<1>4. ASSUME NEW r \in Runs, Ended(r) PROVE Ended(r)'
  BY <1>1, <1>3, <1>4 DEF Ended, Starting
<1>5. ASSUME NEW d \in Conns
      PROVE  /\ binding'[d].work = binding[d].work
             /\ \A f \in ToSet(n2s'[d]) : f \in ToSet(n2s[d]) \/ f \in ToSet(PendingFrames)
  BY <1>0, <1>1 DEF Bindings
<1>6. ASSUME NEW r \in Runs, Heard(r)' PROVE Signalled(r)
  <2>1. PICK d \in Conns : \E f \in ToSet(n2s'[d]) \cup ToSet(binding'[d].work) : f.run = r /\ Tells(f)
    BY <1>6 DEF Heard, Tells
  <2>2. PICK f \in ToSet(n2s'[d]) \cup ToSet(binding'[d].work) : f.run = r /\ Tells(f)
    BY <2>1
  <2>3. CASE f \in ToSet(n2s[d]) \cup ToSet(binding[d].work)
    BY <2>2, <2>3 DEF Heard, Signalled
  <2>4. CASE f \in ToSet(PendingFrames)
    BY <2>2, <2>4, PendingIsAtDaemon DEF Signalled
  <2> QED
    BY <1>5, <2>3, <2>4
<1>7. Signals'
  BY <1>1, <1>6, <1>4 DEF Signalled, Resolved, AtDaemon, Stored, Signals, EndInv
<1>8. WorkTells' /\ NoOrphan' /\ Faults'
  BY <1>1, <1>5 DEF WorkTells, NoOrphan, Faults, EndInv
<1>9. Commands'
  BY <1>1 DEF Commands, CommandOK, RefusalOK, Unsent, EndInv
<1> QED
  BY <1>4, <1>7, <1>8, <1>9 DEF EndInv, EndStep

-------------------------------------------------------------------------------
(* The invariant, and what follows from it *)

LEMMA EndInvInit ==
  ASSUME DispatchInit, \A b \in Budgets : b.fault <= 1 PROVE EndInv
<1>1. /\ run = [r \in Runs |-> None] /\ confirmed = {}
      /\ binding = [c \in Conns |-> NewBinding] /\ stopDone = {}
      /\ exit = [r \in Runs |-> None] /\ pend = [r \in Runs |-> NoEvent] /\ alive = {}
      /\ nodeTodo = {} /\ s2n = [c \in Conns |-> <<>>] /\ n2s = [c \in Conns |-> <<>>]
      /\ left \in Budgets
  BY DEF DispatchInit, Init
<1>2. ASSUME NEW c \in Conns
      PROVE  ToSet(binding[c].work) = {} /\ ToSet(s2n[c]) = {} /\ ToSet(n2s[c]) = {}
  BY <1>1, NoElems DEF NewBinding
<1>3. Signals
  <2>1. ASSUME NEW r \in Runs PROVE ~Heard(r) /\ ~Resolved(r) /\ ~AtDaemon(r) /\ ~Stored(r)
    BY <1>1, <1>2, StoreAssumption
       DEF Heard, Resolved, AtDaemon, Stored, StoreAssumption, RunStatus
  <2> QED
    BY <2>1 DEF Signals, Signalled
<1>4. WorkTells /\ Commands /\ NoOrphan
  BY <1>1, <1>2 DEF WorkTells, Commands, NoOrphan
<1>5. Faults
  BY <1>1, DispatchAssumption DEF DispatchAssumption, Faults
<1> QED
  BY <1>3, <1>4, <1>5 DEF EndInv

LEMMA EndInvStep ==
  ASSUME PromptServer, RowsInv, DispatchInv, DispatchInv', RejectInv, EndInv,
         [DispatchNext]_dispatchVars
  PROVE  EndStep
<1>1. CASE UNCHANGED dispatchVars
  <2>1. /\ UNCHANGED <<binding, reg, queued, startOps, nodeVars, s2n, n2s, left>>
        /\ UNCHANGED <<run, reason, confirmed, stopDone>>
    BY <1>1 DEF dispatchVars, serverVars, netVars, storeVars, runVars
  <2> QED
    BY <2>1, BudgetKept, RowsAlone, RowsEnd
<1>2. CASE UserStep \/ GraceExpire \/ \E t \in Tasks, r \in Runs : Assign(t, r)
  BY <1>2, UsersEnd
<1>3. ASSUME NEW r \in Runs, CancelRun(r) PROVE EndStep
  BY <1>3, StopStepsEnd DEF CancelRun, DispatchInv, Types, ServerTypes
<1>4. ASSUME NEW r \in Runs, RunStep(r) PROVE EndStep
  BY StartsEnd, ExpireEnds, AfterStopEnds, <1>4 DEF RunStep, Intents
<1>5. ASSUME NEW r \in Runs, NodeHandler(r) PROVE EndStep
  BY <1>5, StartFailsEnds, StartSucceedsEnds, TerminalEnds, StopAnswered, ResumeAnswered
     DEF NodeHandler
<1>6. ASSUME NEW r \in Runs, ProcessEnds(r) PROVE EndStep
  BY <1>6, SilentEnds
<1>7. ASSUME NEW c \in Conns, ServerStep(c) PROVE EndStep
  <2>1. CASE Activate(c) \/ ResumeList(c) \/ ServerClose(c)
    BY <2>1, ListEnds
  <2>2. CASE Receive(c)
    BY <2>2, ReceiveEnds
  <2>3. CASE WorkEvent(c)
    BY <2>3, EventEnds
  <2>4. CASE WorkStartRejected(c)
    BY <2>4, RejectionEnds
  <2>5. CASE WorkResumeRejected(c) \/ WorkResumeTimeout(c)
    BY <2>5, LostRunEnds
  <2>6. CASE WorkStopAck(c)
    BY <2>6, StopAckEnds
  <2>7. ASSUME NEW r \in Runs, SendRunStart(r, c) PROVE EndStep
    BY <2>7, StartsEnd
  <2>8. ASSUME NEW r \in Runs, SendRunResume(c, r) PROVE EndStep
    BY <2>8, ResumeStepsEnd
  <2>9. ASSUME NEW r \in Runs, ReconcileSurvivingProcess(c, r) PROVE EndStep
    BY <2>9, StopStepsEnd
  <2> QED
    BY <1>7, <2>1, <2>2, <2>3, <2>4, <2>5, <2>6, <2>7, <2>8, <2>9 DEF ServerStep
<1>8. ASSUME NEW c \in Conns, NodeConnect(c) \/ NodeDrop(c) \/ NodeFrame(c) PROVE EndStep
  BY <1>8, ConnectEnds, SilentEnds, CommandEnds, ReceiptEnds DEF NodeFrame
<1>9. ASSUME NEW c \in Conns, NEW r \in Runs, StopTimeout(c, r) \/ ResumeTimeout(c, r)
      PROVE  EndStep
  BY <1>9, ListEnds, ResumeStepsEnd
<1>10. CASE ServerRestart \/ NodeRestart
  BY <1>10, RestartEnds, SilentEnds
<1> QED
  BY <1>1, <1>2, <1>3, <1>4, <1>5, <1>6, <1>7, <1>8, <1>9, <1>10 DEF DispatchNext

\* What the server settles is what the daemon told, and what the daemon told is true.
LEMMA EndsAreSignalled ==
  ASSUME RowsInv, DispatchInv, EndInv PROVE SettledRunIsDead /\ StopConfirmed /\ ConfirmedIsDead
<1>0. confirmed \subseteq Runs /\ stopDone \subseteq Runs \X Intents
  BY DEF RowsInv, TypeOK, DispatchInv, Types, ServerTypes
<1>1. \A r \in Runs : Signalled(r) => r \notin alive
  BY DEF EndInv, Signals, Ended
<1>2. SettledRunIsDead /\ ConfirmedIsDead
  BY <1>0, <1>1 DEF SettledRunIsDead, ConfirmedIsDead, Signalled, Stored
<1>3. ASSUME NEW w \in stopDone PROVE w[1] \notin alive
  BY <1>0, <1>1 DEF Resolved, Signalled
<1> QED
  BY <1>2, <1>3 DEF StopConfirmed

\* The server is told of the end of a process in many ways: a terminal event, a
\* stop that resolved (dispatchRunStop "resolves only after the node has confirmed
\* that the process is stopped"), a resume that found no process ("only explicit
\* process_exited proves absence", node-binding.ts).  Whatever the connection and
\* the order, the process is gone, and does not start again.  One ingestion, or
\* one stop of a process, may fail; of a second failure the daemon keeps no record.
THEOREM EndsAreTrueAlways ==
  ASSUME OrderedClose, PromptServer, Runs # {}, \A b \in Budgets : b.fault <= 1
  PROVE  DispatchSpec => []EndsAreTrue
<1> DEFINE Inv == RowsInv /\ DispatchInv /\ RejectInv /\ EndInv
<1>1. DispatchInit => Inv
  BY StoreInvInit, DispatchInvInit, RejectInvInit, EndInvInit DEF DispatchInit, StoreInv
<1>2. Inv /\ [DispatchNext]_dispatchVars => Inv'
  BY DispatchMoves, MoveIsStep, RowsStep, DispatchInvStep, RejectInvStep, EndInvStep DEF EndStep
<1>3. Inv => SettledRunIsDead /\ StopConfirmed /\ ConfirmedIsDead
  BY EndsAreSignalled
<1> QED
  BY <1>1, <1>2, <1>3, DispatchTypeCorrect, PTL DEF DispatchSpec, EndsAreTrue

-------------------------------------------------------------------------------
(* Leases go with the process *)

\* A run has its leases until it ended.
LeaseRows ==
  \A r \in Runs : run[r] # None /\ PathsOf[r] # {} => r \in held \/ Ended(r)

\* What frees the leases of r other than the rejection of its start.
Frees(r) ==
  \/ CancelRunCommit(r)
  \/ \E e \in BOOLEAN : FailRunDaemonDisconnect(r, e)
  \/ \E q \in Seqs, b \in Bodies : NodeDelivers(r, q, b)

\* The store frees leases on the word of the node only.
LEMMA FreedIsStored ==
  ASSUME RowsInv, NEW r \in Runs, Frees(r), r \in held, r \notin held' PROVE Stored(r)'
<1> USE StatusFacts, RunEdges, StoreAssumption DEF RowsInv, TypeOK, StoreAssumption, runVars
<1>1. CASE CancelRunCommit(r)
  BY <1>1 DEF CancelRunCommit, Stored
<1>2. ASSUME NEW e \in BOOLEAN, FailRunDaemonDisconnect(r, e) PROVE r \in confirmed'
  BY <1>2 DEF FailRunDaemonDisconnect
<1>3. ASSUME NEW q \in Seqs, NEW b \in Bodies, NodeDelivers(r, q, b) PROVE Stored(r)'
  <2>1. b # "output" /\ IngestLifecycle(r, b) /\ (b \in {"completed", "cancelled"} => StartAccepted(r))
    BY <1>3 DEF NodeDelivers, IngestRunEvent
  <2>2. CASE ReconcileDisconnected(r)
    BY <2>2 DEF ReconcileDisconnected, Stored
  <2>3. CASE b = "completed" /\ IngestCompleted(r)
    BY <2>1, <2>3, ActiveFacts DEF IngestCompleted, StartedShape, RowsOK, Active, CasRun, Stored
  <2>4. CASE IngestFailedBeforeStart(r)
    BY <2>4 DEF IngestFailedBeforeStart, RunShape, FromQueued, CasRun, Stored
  <2>5. CASE IngestFailed(r)
    BY <2>5 DEF IngestFailed, RunShape, CasRun, Stored
  <2>6. CASE IngestCancelled(r)
    BY <2>6 DEF IngestCancelled, Stored
  <2>7. ~IngestSettled(r, b) /\ ~IngestStarted(r)
    BY DEF IngestSettled, IngestStarted
  <2> QED
    BY <2>1, <2>2, <2>3, <2>4, <2>5, <2>6, <2>7 DEF IngestLifecycle
<1> QED
  BY <1>1, <1>2, <1>3 DEF Frees, Stored

\* It is touched by the handlers of its run only.
LEMMA FreesItsOwn ==
  ASSUME RowsInv, NEW x \in Runs, RunHandler(x), NEW r \in Runs, r \in held, r \notin held'
  PROVE  r = x
BY HandlerOutcome, OutcomeRows DEF RowsInv, RowsOK

LEMMA FreedByFrees ==
  ASSUME RowsInv, NEW x \in Runs, Frees(x), NEW r \in Runs, r \in held, r \notin held'
  PROVE  Frees(r)
BY FreesItsOwn DEF Frees, RunHandler

\* Every step that takes leases away.
LEMMA ServerFrees ==
  ASSUME RowsInv, DispatchInv, RejectInv, NEW c \in Conns, ServerStep(c),
         NEW r \in Runs, r \in held, r \notin held'
  PROVE  Frees(r) \/ (WorkStartRejected(c) /\ r = Head(binding[c].work).run)
<1>1. ASSUME Activate(c) \/ ServerClose(c) PROVE FALSE
  BY <1>1 DEF Activate, ServerClose, SetComputerOnline, SetComputerOffline, storeVars, runVars
<1>2. CASE WorkEvent(c)
  <2>1. PICK f : f = Head(binding[c].work)
    OBVIOUS
  <2>2. /\ f.run \in Runs /\ f.n \in Seqs /\ f.status \in Phases
        /\ f.status \in {"completed", "cancelled"} => StartAccepted(f.run)
    BY <1>2, <2>1, EventHead DEF WorkEvent
  <2>3. IngestRunEvent(f.run, f.n, f.status) \/ UNCHANGED storeVars
    BY <1>2, <2>1 DEF WorkEvent
  <2>4. ~UNCHANGED storeVars
    BY DEF storeVars, runVars
  <2>5. NodeDelivers(f.run, f.n, f.status)
    BY <2>2, <2>3, <2>4 DEF NodeDelivers
  <2>6. \E q \in Seqs, b \in Bodies : NodeDelivers(f.run, q, b)
    BY <2>2, <2>5, Zenon DEF Bodies
  <2>7. Frees(f.run)
    BY <2>6 DEF Frees
  <2> QED
    BY <2>2, <2>7, FreedByFrees
<1>3. CASE WorkStartRejected(c)
  <2>1. PICK x : x = Head(binding[c].work).run
    OBVIOUS
  <2>2. x \in Runs
    BY <1>3, <2>1, RejectionIsEnd
  <2>3. RunHandler(x)
    BY <1>3, <2>1, RejectsAsStored
  <2> QED
    BY <1>3, <2>1, <2>2, <2>3, FreesItsOwn
<1>4. CASE WorkResumeRejected(c) \/ WorkResumeTimeout(c)
  <2>1. PICK x : x = Head(binding[c].work).run
    OBVIOUS
  <2>2. x \in Runs
    BY <1>4, <2>1, WorkHead DEF DispatchInv, WorkResumeRejected, WorkResumeTimeout
  <2>3. Frees(x)
    BY <1>4, <2>1 DEF WorkResumeRejected, WorkResumeTimeout, Frees
  <2> QED
    BY <2>2, <2>3, FreedByFrees
<1>5. ASSUME \/ ResumeList(c) \/ Receive(c) \/ WorkStopAck(c)
             \/ \E x \in Runs : \/ SendRunStart(x, c) \/ SendRunResume(c, x)
                                \/ ReconcileSurvivingProcess(c, x)
      PROVE  FALSE
  BY <1>5 DEF ResumeList, Receive, WorkStopAck, SendRunStart, SendRunResume,
              ReconcileSurvivingProcess, storeVars, runVars
<1> QED
  BY <1>1, <1>2, <1>3, <1>4, <1>5 DEF ServerStep

LEMMA LeasesFreed ==
  ASSUME RowsInv, DispatchInv, RejectInv, [DispatchNext]_dispatchVars,
         NEW r \in Runs, r \in held, r \notin held'
  PROVE  \/ Frees(r)
         \/ \E c \in Conns : WorkStartRejected(c) /\ r = Head(binding[c].work).run
<1>1. ASSUME UNCHANGED storeVars PROVE FALSE
  BY <1>1 DEF storeVars, runVars
<1>2. ASSUME UserStep \/ GraceExpire \/ ServerRestart PROVE FALSE
  BY <1>2 DEF UserStep, GraceExpire, ServerRestart, MarkReady, AcceptReview, RequestChanges,
              RetryTask, SetComputerOffline, storeVars, runVars
<1>3. ASSUME NEW t \in Tasks, NEW x \in Runs, Assign(t, x) PROVE FALSE
  BY <1>3, AssignRows DEF Assign, RowsInv
<1>4. ASSUME NEW x \in Runs, CancelRun(x) \/ RunStep(x) PROVE Frees(r)
  BY <1>1, FreedByFrees, <1>4 DEF CancelRun, OnRunQueued, ExpireRun, Frees, AfterStop, RunStep
<1>5. ASSUME \/ \E x \in Runs : NodeHandler(x) \/ ProcessEnds(x)
             \/ \E c \in Conns : NodeConnect(c) \/ NodeDrop(c) \/ NodeFrame(c)
             \/ NodeRestart
      PROVE FALSE
  BY <1>1, <1>5, DaemonMoves
<1>6. ASSUME NEW c \in Conns, NEW x \in Runs, StopTimeout(c, x) \/ ResumeTimeout(c, x) PROVE FALSE
  BY <1>1, <1>6 DEF StopTimeout, ResumeTimeout
<1>7. CASE \E c \in Conns : ServerStep(c)
  BY <1>7, ServerFrees
<1>8. CASE UNCHANGED dispatchVars
  BY <1>1, <1>8 DEF dispatchVars
<1> QED
  BY <1>2, <1>3, <1>4, <1>5, <1>6, <1>7, <1>8 DEF DispatchNext

\* A run begins with its leases.
LEMMA AssignedWithLeases ==
  ASSUME RowsInv, StoreMove, NEW r \in Runs, run[r] = None, run'[r] # None, PathsOf[r] # {}
  PROVE  r \in held'
<1>1. ASSUME \/ TaskStep \/ UNCHANGED storeVars
             \/ \E c \in Computers : SetComputerOnline(c) \/ SetComputerOffline(c)
      PROVE  FALSE
  BY <1>1 DEF TaskStep, MarkReady, AcceptReview, RequestChanges, RetryTask,
              SetComputerOnline, SetComputerOffline, storeVars, runVars
<1>2. ASSUME NEW t \in Tasks, NEW x \in Runs, AssignTask(t, x) PROVE r \in held'
  BY <1>2, AssignRows DEF RowsInv, TypeOK
<1>3. ASSUME NEW x \in Runs, RunHandler(x) PROVE FALSE
  <2>1. RowsOK /\ RunOutcome(x)
    BY <1>3, HandlerOutcome DEF RowsInv, RowsOK
  <2>2. x = r
    BY <2>1, OutcomeRows
  <2> QED
    BY <2>1, <2>2, StoreAssumption, StatusFacts
       DEF RunOutcome, Starts, Completes, Fails, FailsRunning, FailsQueued, Cancels, StaysSettled,
           OnlyReceipt, runVars, StoreAssumption, RunStatus
<1> QED
  BY <1>1, <1>2, <1>3 DEF StoreMove

LEMMA LeaseRowsStep ==
  ASSUME PromptServer, Runs # {}, RowsInv, DispatchInv, DispatchInv', RejectInv, EndInv,
         LeaseRows, [DispatchNext]_dispatchVars
  PROVE  LeaseRows'
<1>1. EndInv' /\ \A r \in Runs : Ended(r) => Ended(r)'
  BY EndInvStep DEF EndStep
<1>2. StoreMove
  BY DispatchMoves
<1>3. ASSUME NEW r \in Runs, r \in held, r \notin held' PROVE Ended(r)'
  BY <1>1, <1>3, FreedIsStored, RejectionIsEnd, LeasesFreed DEF EndInv, Signals, Signalled
<1>4. ASSUME NEW r \in Runs, run'[r] # None, PathsOf[r] # {} PROVE r \in held' \/ Ended(r)'
  BY <1>1, <1>2, <1>3, <1>4, AssignedWithLeases DEF LeaseRows
<1> QED
  BY <1>4 DEF LeaseRows

\* run-service.ts: leases are held until the owning node confirms absence or
\* completes the stop.  Whatever is lost, late or restarted, a living process
\* writes under the leases of its run.
THEOREM LeasesCoverProcesses ==
  ASSUME OrderedClose, PromptServer, Runs # {}, \A b \in Budgets : b.fault <= 1
  PROVE  DispatchSpec => []LeasesCoverProcess
<1> DEFINE Inv == RowsInv /\ DispatchInv /\ RejectInv /\ EndInv /\ LeaseRows
<1>1. DispatchInit => Inv
  <2>1. DispatchInit => LeaseRows
    BY DEF DispatchInit, Init, LeaseRows
  <2> QED
    BY <2>1, StoreInvInit, DispatchInvInit, RejectInvInit, EndInvInit DEF DispatchInit, StoreInv
<1>2. Inv /\ [DispatchNext]_dispatchVars => Inv'
  <2>1. Inv /\ [DispatchNext]_dispatchVars => [Next]_storeVars
    BY DispatchMoves, MoveIsStep
  <2>2. Inv /\ [DispatchNext]_dispatchVars => RowsInv' /\ DispatchInv' /\ RejectInv'
    BY <2>1, RowsStep, DispatchInvStep, RejectInvStep
  <2> QED
    BY <2>2, EndInvStep, LeaseRowsStep DEF EndStep
<1>3. Inv => LeasesCoverProcess
  <2> SUFFICES ASSUME Inv, NEW r \in alive, PathsOf[r] # {} PROVE r \in held
    BY DEF LeasesCoverProcess
  <2>1. r \in Runs
    BY DEF DispatchInv, Types, NodeTypes
  <2>2. run[r] # None
    BY <2>1, LiveIsThrough
  <2> QED
    BY <2>1, <2>2 DEF LeaseRows, Ended
<1> QED
  BY <1>1, <1>2, <1>3, PTL DEF DispatchSpec
=============================================================================
