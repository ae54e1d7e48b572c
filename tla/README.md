# Artoo: verification development

TLA+ specifications of Artoo, a collaboration server that plans goals, assigns
tasks to coding agents and runs them on the computers of its users. Paths below
are relative to the repository root (`src/` is where its files are kept here).

1. [The system](#1-the-system)
2. [Modules](#2-modules)
3. [Runs](#3-runs)
4. [Proofs](#4-proofs)
5. [Assumptions and known divergences](#5-assumptions-and-known-divergences)
6. [What is not modelled](#6-what-is-not-modelled)
7. [Plan](#7-plan)

`PROJECT.json` holds the same in a form for tools: components, runs, the
mutants that show each property can fail, the source lines of every definition,
findings, hazards and theorems.

## 1. The system

One server process (`apps/server`) over one SQL database; one execution daemon
(`apps/artood`) per computer, connected by a WebSocket; clients (web, iOS, an
SDK, a desktop shell around the web client) that use an HTTP interface and a
WebSocket for events.

```
 user -- HTTP + Idempotency-Key --> services -- one transaction each --> database
 (command queue)                       |  ^                               | event_log
                                       |  | captured close, grace window   v
 client <-- events, catch-up --- client-ws <-- publisher (polls) ---------'
                                       |
                              node binding, one per socket
                                       |  run.start / run.stop / run.resume
                                       v  run.event, acknowledgements
                          daemon: node client -> adapter -> process under a guardian
```

| Component | State | Operations | What must hold |
|---|---|---|---|
| Status machines (`packages/domain/src/state.ts`, `transition-service.ts`) | `status` of tasks, runs, approvals | transition tables; compare-and-set updates | only listed edges are taken |
| Run store (`run-service.ts`, `lifecycle-service.ts`) | rows of tasks, runs, `run_events` receipts, failure reasons | ready, assign, review, retry, cancel, ingest, failed start, disconnect | one unsettled run per task; no stranded task; settled runs stay settled; replays are harmless |
| File leases (`lease-service.ts`, `lease.ts`) | lease rows of a run or of a user | reserve, acquire, release, renew, expire | overlapping paths have one holder; a run that may still write keeps its leases |
| Approvals (`approval-service.ts`) | approval rows, the run a gate is bound to | request, supersede, decide, bind | one approval admits one execution |
| Task graph (`dag-service.ts`) | gating and child edges | edit with cycle check, unlock dependents | a task starts after all its prerequisites |
| Node binding (`node-binding.ts`, `ws/node-ws.ts`) | per socket: pending commands, stops under way, receive queue; registry of the current socket per computer | register, start, stop, resume, acknowledge, time out | the server's word on a process is true |
| Grace window, recovery (`ws/grace-window.ts`, `execution-recovery-service.ts`) | armed windows in memory | arm, disarm, expire; recover on start | no run stays active for ever; none is settled as dead while it writes |
| Daemon (`artood/src/node-client.ts`, `ws-transport.ts`, `process-adapter.ts`) | runs and finished runs, one event waiting for its receipt per run, bounded buffer | reconnect, start, stop, resume, stream events | a run has one process in its life |
| Goals and plans (`goal-service.ts`, `plan-service.ts`) | goals, plan versions, cancellations under way in memory | propose, accept, materialise, replace, pause, resume, cancel, complete | nothing of a cancelled or replaced plan is alive |
| Budgets, checkpoints (`budget-service.ts`, `resume-service.ts`) | retry count, elapsed time, checkpoint, blockers | count, enforce, reconcile | limits count processes that may be alive |
| Events (`event-publisher.ts`, `client-ws.ts`, `sync-client.ts`, `realtimeClient.ts`, `RealtimeConnection.swift`) | `event_log` positions, publisher cursor, subscriptions, client cursors | append, publish, subscribe, catch up, read | no committed event is forgotten |
| Commands (`command-queue.ts`, `commandQueue.ts`, `idempotency-middleware.ts`) | ordered queue, idempotency rows | submit, flush, reserve, replay, store the answer | applied once, in order; answers are true |
| Managed daemon (`artood/src/managed`) | durable journal of one launch and its outbox; a proved session | admit, launch, settle, deliver, correct; connect, probe, replay | nothing runs twice or gets lost over a crash; the server is told the truth |
| Agent process (`process-adapter.ts`) | a process group, its guardian, what was seen of them | start, abort, stop, end | an outcome means that nothing writes any more |
| Access (`device-service.ts`, `auth-service.ts`, `member-suspension-service.ts`, `device-connections.ts`) | sign-in flows, users, codes, devices, sessions, registered sockets | sign in, pair, claim, rotate, revoke, suspend, check again | a flow signs in once, where it began; a dead credential has no socket |
| Turns and discussions (`assistant-service.ts`, `discussion-service.ts`, `ai-data-sharing-service.ts`) | turns, a discussion row, the last grant; a pump and stops under way in memory | enqueue, pump, answer, cancel, retry, advance, stop, withdraw | one agent per conversation; nothing outlives a withdrawal |
| Desktop (`desktop-controller.cjs`, `managed-profile-store.cjs`) | one child process, restart timer, profiles on disk | launch, restart, stop, provision, ask for status | one worker, stopped when told; unclean ends show |
| Owned worktrees (`artood/src/owned`) | a Git process and its group; the run's root, branch, registration and context file | run Git, provision, check, claim, materialise, write the context, launch | an attempt works in its own checkout only; a verdict of Git is true |
| Room messages (`message-service.ts`, `content-moderation-service.ts`, `RoomConversation.tsx`, `roomMessages.ts`, `roomDrafts.ts`, `RoomMessagesViewModel.swift`) | messages and removals; each client's view, cursors, draft and submission | post, remove, page, catch up, refresh, send, retry, leave, sign out | no message is skipped or shown again; a text is stored once and not lost |
| Node supervisor (`packages/node-supervisor`) | one child, restart budget, generation, timers | start, stop, tick, crash, restart | one process; a stop stays; restarts are bounded |
| Storage (`pglite-db-client.ts`, `storage-operations.ts`, `artifact-routes.ts`) | the data directory, its lock, artifacts, backups | start, migrate, upload, back up, adopt, restore, unlock | one program has the database open; backups are complete |
| Records (`collaboration-service.ts`) | decisions, hand-offs, blockers with their events | create, promote, set the status, sweep after an approval | one decision of a message; the log tells the status |
| Presence, memory and skills, user interfaces | | | see section 6 |

### What makes it hard

* **Two sides of one run.** The store's row and the daemon's process change
  independently; every answer of the daemon may be lost, late or follow a
  reconnection. "Failed" does not mean "dead": a disconnect without proof of
  exit (`daemon_disconnected`, exit unconfirmed) keeps the leases and blocks the
  next assignment.
* **Work between two transactions.** `cancelRun`, `cancelGoal`, `sendRunStart`
  and `activate` read, wait for something outside the database, and act on what
  they read.
* **In-memory state**: grace windows, the registry, cancellations under way,
  the daemon's tombstones. A restart loses it.
* **Three ways to learn of an event**: live frames, the catch-up of a
  subscription and the client's own reads, all asynchronous.
* **Replay**: commands by clients, events by daemons; both are deduplicated by
  keys kept in the database.

`PROJECT.json` lists each such point under `hazards` at its line, with the
properties that watch it.

## 2. Modules

| Module | Models | Extends |
|---|---|---|
| `StateMachines` | `state.ts` tables and the compare-and-set on them | |
| `RunStore` | the transactions of the services on tasks, runs, leases, approvals | `StateMachines` |
| `RunStoreProofs` | its theorems | `RunStore` |
| `RunDispatch` | node bindings, frames, grace windows, the daemon and its processes | `RunStore` |
| `Goals` | plans, budgets, reconciliation, cancellation of one goal | `RunStore` |
| `EventSync` | event log, publisher, subscription, one client | |
| `CommandReplay` | the web client's queue, idempotency rows, a versioned handler | |
| `ManagedJournal` | the journal of a managed daemon: transactions as operators | |
| `ManagedRun` | one launch on a managed daemon, with crashes and its server | `ManagedJournal` |
| `RunPromise` | what a managed daemon promises about a run; `ManagedRun` implements it | |
| `ManagedLink` | the managed session, its clocks, ordinary events kept for replay | |
| `Turns` | turns of a conversation, a planning discussion, consent | `StateMachines` |
| `TaskGraph` | tasks, edges and the cycle check, unlocking | |
| `FileLeases` | leases by hand and by runs, on paths, with expiry | |
| `Login` | the OAuth flow, from the cookie to the user | |
| `Access` | sessions, devices, suspension, sockets | |
| `Accounts` | the two together | `Login`, `Access` |
| `DesktopWorker` | the desktop application's worker process and profiles | |
| `NodeSupervisor` | the supervisor of one daemon, without the desktop application | |
| `CliProcess` | one agent's process group, guardian and adapter | |
| `RoomTimeline` | the messages of a room as the server pages and a client shows them | |
| `RoomComposer` | a message from the keyboard to the room, once | |
| `Rooms` | the two together | `RoomTimeline`, `RoomComposer` |
| `OwnedGit` | one run of Git by the daemon | |
| `OwnedWorktree` | the worktree of an owned run, its attempts and other processes | `OwnedGit` |
| `Records` | the records of a discussion, one database operation at a time | |
| `Storage` | the data directory with the server, its releases and the tools | |
| `ClientProofs` | theorems about commands, accounts and rooms | `CommandReplay`, `Accounts`, `Rooms` |
| `DaemonProofs` | theorems about the managed daemon: its supervisor, a launch and its journal | `NodeSupervisor`, `ManagedRun` |
| `EventSyncProofs` | theorems about events | `EventSync` |
| `GoalsProofs` | theorems about a goal | `Goals`, `RunStoreProofs` |
| `PartsProofs` | theorems about the task graph, leases, the desktop, the managed session, an agent's process, owned work | `TaskGraph`, `FileLeases`, `DesktopWorker`, `ManagedLink`, `CliProcess`, `OwnedWorktree` |
| `RunDispatchProofs` | theorems about the protocol, and that it implements the store | `RunDispatch`, `RunStoreProofs` |
| `StorageProofs` | theorems about the data directory | `Storage` |
| `MC...` | instances for TLC (`MCParts` and `MCServices` compose parts without shared state) | |

`RunStore` is the abstract specification of what the execution system promises
about its rows. `RunDispatch` uses the same actions but takes the node-driven
ones only when the protocol does. It implements `RunStore!Spec` (property `ImplementsStore`),
which TLC checks and `RunDispatchProofs` proves for any number of runs, connections
and faults under `OrderedClose` and `PromptServer`: the assumptions under which the store was proved
right (an event comes only from the node that owns the run, a start is rejected
only while the process does not exist, ...) are then no assumptions any more.
The variables of the store are variables of `RunDispatch`, so the refinement
mapping is the identity on them.

### RunStore

One action per transaction; the database client serialises transactions, so a
transaction is atomic. A run's `reason` keeps only whether it failed by
disconnect and `confirmed` whether its exit is proved; `held` is the set of runs
whose leases are active; `receipts` the event sequences stored for a run with the
body first seen. An action holds all the code does in the transaction: the
compare-and-set on the run, the task's follow-up even when the run's
compare-and-set did nothing, the leases and the approvals. `NodeDelivers` is
`ingestRunEvent` under what a node may send; `NodeRejectsStart` and
`FailRunDaemonDisconnect` likewise. `DevRoutes` mounts the development approval
fixture.

### RunDispatch

Connections are numbered; `binding[c]` is the closure of `attachNodeBinding` for
socket `c`, `work` its `enqueue` chain, so frames of one socket are handled one
at a time while the grace timer, users and other sockets interleave with the
`await`s of a handler. `cur` is the daemon's open socket; frames sent to an
older one are lost, frames already sent still arrive, and a half-open socket's
close may be seen after its successor registered (`OrderedClose = FALSE`).
`nrun` is the daemon's `runs`/`finishedRuns`, `alive` the processes that exist.
A restart of the daemon kills its processes (the guardian of
`process-adapter.ts`), a restart of the server drops all its in-memory state and
runs the recovery.

Budgets of the environment (`left`) start as one of `Budgets`, a set of records:
cancellations, timeouts, faults, restarts. `MCDispatchSafety` lets a behaviour
choose one run with a cancellation, a fault and a restart, or two runs of a task
with a timeout and a fault.

### Goals

One goal over the store. `cancelGoal` is `FenceGoal` (first transaction),
`ReadGoalRuns`, a `StopNext`/`StopAnswered` for each run in turn (with the
swallowed error of `app.ts:497`) and `CommitCancel`; `AbortCancel` is a restart of the
server between them. Runs move on by the store's actions meanwhile. Acceptance
of a plan cancels the tasks of the one it replaces, checks that none of its runs
is unsettled, and materialises the new tasks. Reconciliation reads a checkpoint
and opens a blocker for each run that is not active any more, then moves the goal
to `blocked` in a second transaction.

### EventSync

Positions of one organisation's log; `log[p]` says whether the event at `p`
concerns the client. Frames written by one synchronous loop of the server are
one `Span`. The publisher's read (`DrainRead`) and its publication
(`DrainPublish`) are apart, with subscriptions, commits and failures between
them. `kind` chooses the client program: `sdk` asks for what follows its cursor
and hands events to its application; `web` and `ios` re-read the HTTP interface
when they hear of an event, `ios` asks for what follows its cursor as well.

### CommandReplay

`queue` holds thunks; `flush` is the promise of `runFlush`, including the moment
in which it has ended and `flushing` is still set. A request moves from `sent`
through `handling` (key reserved) and `committed` or `failed` to `answered`; a
lost connection or a crash may end it anywhere. `applied` is the ghost order of
commits.

### ManagedJournal, ManagedRun and RunPromise

A managed daemon keeps one row per launch in a SQLite file owned by a worker
thread. `ManagedJournal` has each transaction of `journal-worker.ts` as an
operator from journal to journal: phases of the launch, the outbox of events
with their roles (start, live, retention, terminal, correction), the attempts of
each, the fence, the claim before a frame is exposed and the commit of its
receipt. `ManagedRun` is everybody who calls it: `executePhysicalStart` and the
stop of `node-client.ts`, settlement and the drain of `managed-delivery.ts`, the
process, and the server, which is external and accepts again what it has
accepted. The journal `j` and the process `child` survive a crash; the record
`d` does not. An error of the journal makes it unusable until the next process,
as the facade does.

`RunPromise` says in four actions what all that is for: one launch at most,
never after a fence; one result; the server is told that result, or "failed"
where a completed run could not be delivered. `KeepsPromise` is
`Promise!PromiseSpec` under the mapping `fenced <- j.receipt = "fenced"`,
`result <- j.outcome`, `told <- Told` (the phases of terminal frames the server
holds).

### ManagedLink

Each connection attempt is a generation with its socket, which may die unseen
at either end; time is in ticks and the daemon's timers fire up to `Lag` late.
`link` is the session of `managed-ws-transport.ts` (handshake deadline, probes),
`runner` the loss timer of `managed-node-runner.ts`, `srv` and `bound` the
server's handshake and registry, `events` the lane of ordinary run events. `HandshakesInTurn` says
whether the server's part of one handshake is over before the next begins (section 5).

The node client awaits each send, so a run's next event, or after a failure its report of it, is
sent when the one before is settled (`SendEvent`). A binding of the server queues the events it gets
(`inbox`, the promise chain of `node-binding.ts`) and goes on with them whatever became of its
socket, so the queue of a replaced binding runs beside that of the new one. `ServerIngests` takes the head: it is
taken in and acknowledged; or `ingestWireRunEvent` throws, before its commit or at it, and the
receipt says "rejected"; or there is no receipt, because the event was not the node's to
report, its kind is unknown or the check of the run failed. `ReceiveAck` settles a rejected event as failed, and
an accepted one that is overdue too. A replay of what is in already is acknowledged and changes
nothing. `OrdinaryInOrder` says what is left of an order then: what is reported as delivered came in, and an
event comes in only after every earlier one came in or was reported as failed.

### Turns

A turn's row holds its task, its run, the grant it was made under and whether an
answer is stored. `pump` is one pass of `createAssistantDispatcher`: the snapshot,
then for each turn the reads (`PumpPicks`) and the one transaction they lead to,
with everybody else between. `calls` are cancellations that wait for a stop
outside any transaction or for their last transaction; `fin` is `finishStopping`
of the worker and of a route, from its first read (`lost`) to the row's close;
`wd` is the withdrawal request with the list it has read. A confirmed stop means
that the process is gone and will not start: that is `StopConfirmed` of
`RunDispatch` (a part of `EndsAreTrue`), used here as an assumption. One user makes all turns; one
`cancelDiscussion` is under way at a time; the list of a withdrawal is read in one step.

### TaskGraph, FileLeases, Login, Access, DesktopWorker, NodeSupervisor and CliProcess

* `TaskGraph`: edges of several types between tasks in any state, the cycle
  check of `dag.ts`, evidence, `unlockDownstream`. Every state between backlog
  and the terminal ones is `open` (`RunStore` has them all). `Acyclic` asks
  for an order of the tasks, which the search of the code never looks for.
* `FileLeases`: a path is the sequence of its segments, normalised as `lease.ts`
  does; `Place` walks the raw path as a file system that ignores case would and is
  the reference. Leases of runs and by hand, expiry as marks that a conflicting
  transaction rolls back.
* `Login`: a request of the callback carries the flow cookie its browser had then,
  checks its flow, takes it by a compare-and-set, and after the exchange resolves the user in one
  transaction. The provider and the browsers are the environment: an address may be opened
  twice or elsewhere, and the token names any address. Users of earlier sign-ins exist or not.
* `Access`: sockets authenticate in two steps with a transaction between them;
  the closing of sockets after a revocation is a step of its own; a tick is the 30
  seconds of the periodic check of client sockets.
* `DesktopWorker`: operations of the user one after the other, against messages
  and events of the child, the restart timer, a status request in flight and
  a crash of the application. The generation counter is a flag "superseded".
* `NodeSupervisor`: processes are numbered; the continuation of an ended one's promise
  (`ExitedNode`), the timers and the heartbeat that is still fresh are steps of their own. `tried`
  counts the processes since the last start or healthy sample.
* `CliProcess`: the leader and its descendants, the guardian, and separately what
  the adapter has seen of them (spawn, exit, close). Waits with a budget may run out at any
  moment. `owned` chooses `startOwnedRun` or the ordinary start.

### RoomTimeline and RoomComposer

A message is its position, a page an interval of positions with what is visible and
the reply count of the thread's root. A request is read by the server in one
step (`AnswerFetch`) and used in a later one; events of removals and replies come
late, twice or never, and the web cancels a refresh in progress for each. `kind`
chooses the client: the web collects the pages of its catch-up, reads the newest page
and asks for visibility before it writes its cache; iOS merges each page
as it comes and reads the newest page beside its refresh. `NoGap` is about both cursors at once.

`RoomComposer` follows a text (its number) through the draft on the screen, the stored one, the
attempts (`calls`: those whose answer is waited for, `wire`: requests that may still
arrive) and the room (`stored`). A screen that is left and opened again is a new
`mount`, a login a `generation`. The cancellation of a query, the unmounting of a component and the life of a
view model are those of their libraries, modelled as the code relies on them.

### OwnedGit and OwnedWorktree

`OwnedGit` is one call of `owned-git.ts`: the processes of the group, the events the
daemon has observed of them, its probes and signals, and the verdict. A probe sees what
is there or nothing certain; timers are taken at any moment.

`OwnedWorktree` follows attempts of one run that share its root and branch, check by check as
the `await`s divide them: `Provision` to `LaunchInRoot`, with the claim (`ClaimRoot`), Git's
own two steps, which may go on after its attempt has failed, and other processes that
make, replace, empty or fill the directories up to `LastMeddle` times. What a comment of
`worktree-preflight.ts` says its checks are not ("atomic or safe against all same-UID races") is not
asked of them: code between two `await`s is one step, and no directory
that was replaced comes back.

`MCParts` composes `TaskGraph`, `FileLeases`, `Login`, `Access`, `ManagedLink`, `DesktopWorker`,
`NodeSupervisor`, `CliProcess` and these four as twelve parts (`part`); they share no variable, and a
behaviour is of one of them, since interleaving steps that touch nothing in
common adds states and no behaviour. `MCServices` composes `Turns`, `Records` and `Storage` in the same way. `AccountsHold` is `LoginHolds` and `AccessHolds`, `RoomHolds` is
`TimelineHolds` and `ComposerHolds`.

### Storage

A program (`prog`) is one execution of a server or a tool, with a process id of its own; it takes
its steps one file operation at a time and may die between any two (`Crash`) or during the
write of `owner.json` ("torn"). `lock` is the lock directory with what is in it: `rmdir` fails
while an entry is left (`NotEmpty`). The content of an artifact is its digest; `Rot` damages a file or
the backup. A release stands for the migrations up to its last; `Adopt` takes a release
too, the file name the tool is given. The probe of a dead owner may find its process id in use again.

### Records

Requests (`call`) on one decision, hand-off and blocker. Nothing of them runs in a transaction with
the event, so each database operation is an action; `queue` holds the requests whose next operation
the database has yet to take. PGlite takes operations in the order of their
submission, and a request submits its next one when the last is answered, so `Takes` moves it to the
end. `told` is the status the last event of a record names.

## 3. Runs

Deadlock checking is off in every run: all have states in which the bounded
environment has nothing left to do (settled runs, spent bounds).

| Run | Instance | Shows |
|---|---|---|
| `store` | one task with two runs, two approvals and two event sequences; or three tasks, overlapping paths, a task gated on two, the development fixture | one unsettled run at a time, no stranded task, gates consumed once, settled runs final, lease exclusion, prerequisites, leases kept |
| `dispatch_safety` | one run with one cancellation, fault and restart of either side, or two runs of a task with a timeout and a fault; two connections in any order of closes | one process; `EndsAreTrue` (a run settled with confirmed exit, a confirmed stop or a confirmed disconnect has no process); a living process has its leases; refinement of `RunStore`; a late rejection frees no task of another run |
| `dispatch_live` | one run, two ordered connections, a fault and a restart, with a cancellation or a timeout | every active run settles |
| `dispatch_half_open` (violation) | closes out of order | finding 1 |
| `goals_cancel` | one task, two runs, retries and resumes 1 | a cancelled goal is quiet; its cancellation fences new runs |
| `goals_plans` | two tasks, then one in a second plan; `max_concurrent_runs` 1; elapsed time; symmetry | `PlanEndsQuiet` (a replaced plan is quiet, completion waits for all); concurrency counts possible processes |
| `sync_clients` | three programs, three events, batch limit 1, two breaks, one fault, one rejection | no event is forgotten; every client catches up |
| `commands_replay` | assign and review (with base version), four attempts, two losses, a crash, another's change, a session end | once and in order; true answers; nothing sent after the session; every caller answered |
| `managed_run` | one live event besides the start, two attempts per event, a backlog of one, one crash, one trouble (session lost, storage error or rejection) | the promise of a managed run, journal before server, no frame of a replaced outcome, deliveries come to rest |
| `parts` | three tasks and two edges; three leases with odd paths and an expiry; two browsers, flows, callbacks and subjects, three addresses of which one is not admitted; one member, two devices, one session and socket, three ticks; two attempts of a managed session; two launches and a crash of the desktop; five processes of a supervisor with two automatic restarts and four commands; one process group; four messages (three on the web), one reply and one removal, pages of 1 and catch-ups of 2; two texts, three attempts, two reopenings and one sign-out; one run of Git; two attempts at a worktree and two interventions of others | the properties of the twelve parts |
| `services` | two turns, two tasks, two runs, two grants and two interventions, or a discussion of two steps with one, or its first step with two; three requests on one record of each kind with one stop of the server; four programs, two releases, one artifact | one agent per conversation, a cancelled turn is stopped, a discussion follows its answers, a clean withdrawal leaves nothing; `RecordsHold` (one decision of a message, at rest the last event names the status); `StorageHolds` (one owner of the database, code on its own schema, every row's artifact in place, in the backup and restored, adoption only from a backup) |
| `turns_close` (violation) | one step, one run, no intervention | finding 2 |

**Why the bounds are enough.** The hazards are of two kinds: a race of two
runs, sockets, plans or commands, and a fault in the middle of a handler. Two
runs of a task exercise every guard that compares a run with the others; the
third task of the contended instance is gated on two. Two connections give one that is replaced; a
third would be replaced in the same way, since a binding is never used again
and `reg` names one. The store runs have two event sequences, enough for a replay
with another body; the dispatch runs have three: started, the terminal event and the failure that
the daemon reports after a refused event. A batch limit of 1 puts every second event beyond the limit.
In `managed_run` two attempts give the retry and its exhaustion, and one crash
with one trouble every pair of a lost write and a lost frame. In `parts` two
edges of three tasks are what a cycle needs beyond the one refused, two devices
tell a code claimed twice from one claimed once, and two generations give a
session that is replaced; two callbacks are one flow twice or two flows across each other, over
users that exist; five processes are two exhausted budgets less one; with pages of one message and catch-ups of two pages, four messages
leave a catch-up unfinished and something older than the first page; three attempts are a send, a retry
and another text; two interventions replace the root and disturb what replaced it. In the turns of `services` an intervention is a manual assignment,
review, retry, cancellation, grant, withdrawal or restart; three of them are a
withdrawal, a new grant and a retry, or a retry between two cancellations.
Three requests on a record are two that overlap and what both find. Four programs are an owner that dies,
two tools that race for its lock and a program that starts meanwhile, or a server, its backup, the restore
and another release. Conversation and discussion are checked apart because their threads and tasks
differ: they meet only in the consent. Counters (`left`, `acts`) bound only the environment: connections, faults, timeouts,
restarts, losses, requests of users; steps of the system are unbounded.

**Symmetry.** `goals_plans` swaps (t1, r1) with (t2, r3): both belong to
plan 1 on the same computer, paths are empty, and no constant tells them apart.
The run checks invariants only. In `services` programs are numbered in the order in which they start.

**Fairness.** `FairDispatchSpec`: weak fairness for the server's and the daemon's
own steps, the delivery of frames on an open connection, timers, the end of
processes and the notice of a close. None for connecting, users, faults or restarts: a
computer that never comes back is a behaviour, and its runs end by the grace
window or the recovery. `FairSyncSpec`: the processes run, frames arrive, a
closed socket is noticed and the client tries again (its back-off has no end,
`realtimeClient.ts`), so liveness says nothing of a client that is denied (close
1008 ends its attempts). `FairCommandSpec`: requests and answers progress and the
flush is triggered while commands wait (`online`, a new connection, the user's
*Retry*); a submission that joins a flush which has ended depends on the latter.

`ManagedSpec`: weak fairness of the drain's own steps (`DrainNext`) only, since each wait of
it has the deadline of its event; nothing is assumed of the server or the process.

**Limits of the liveness run.** `dispatch_live` has a cancellation or a timeout, not
both (a stop that times out on a queued run leaves a tombstone at the daemon: the
run stays queued until the next cancellation), and one fault (after two refused events the run is
active until the next disconnect); both are described in section 5.

### Findings

1. **A close that is overtaken loses its runs** (`dispatch_half_open`).
   `node-ws.ts:227` returns before the capture when a newer socket has registered.
   That socket had found no grace window to resume from, so a run whose command was
   lost with the old one is active for ever.
2. **A stopping discussion closes with its process alive** (`turns_close`).
   `finishStopping` reads the runs whose exit is unconfirmed
   (`discussion-service.ts:156`) and, later, the run of the active turn (`:162`). A run
   that is active at the first read and lost with its node before the second is in neither
   answer: nothing is stopped and the discussion closes, although the comments
   (`:154`, `:176`) retain "stopping" until the exit is confirmed.

## 4. Proofs

`RunStoreProofs` proves for all tasks, runs, computers, approvals, paths, overlap
relations, edges and event sequences that satisfy the assumptions of
`RunStore.tla`:

| Theorem | States | Assumes |
|---|---|---|
| `TypeCorrect` | `[]TypeOK` | |
| `LeasesExclude` | `[]LeaseExclusion` | |
| `LeasesKept` | `[]UnsettledRunKeepsLeases` | |
| `PrerequisitesRespected` | `[]PrerequisitesDone` | |
| `SettledRunsFinal` | `SettledRunIsFinal` | |
| `OneRunPerTask` | `[]OneUnsettledRunPerTask` | |
| `NoTaskStranded` | `[]NoStrandedTask` | |
| `GatesConsumedOnce` | `[]GatedRunIsApproved` | |

The last three properties say something as long as the development fixture has
not been used (`FixtureUnused`: no approval of kind "running" exists); what they
say then is false once it has (section 5).

**The argument.** The properties are not inductive alone. `StoreInv` is `RowsInv` and
`PrerequisitesDone`; `RowsInv`, which also holds where a goal cancels tasks of the
backlog, adds three facts to the other properties. `RunShape`: no commit leaves a run in `starting`, `paused` or
`awaiting_input`. `StartedShape`: the receipt of a `started` event and the status of
the run agree; without it a late rejected start could release the leases of a run that is running.
`RunHasTask`: a task with a run has left `backlog`; without it a new run could
belong to a task whose prerequisites are open. `StoreInv` holds with the
development fixture too. `ProductionInv` adds, until that fixture is used,
`NoPausedTask` (no task waits for an approval while its run goes on) and `InStep`
(queued run and assigned task, running and running, cancelled and cancelled).
`InStep` is what lets `assignTask`, which looks at the task's status and at
unconfirmed disconnects only, never find an active run.

The steps of `Next` are first reduced to three kinds (`StepKinds`): steps that touch no
run (`QuietSteps`), assignment (`AssignRows`), and the handlers that settle or
advance a run. `CancelOutcome`, `RejectOutcome`, `DisconnectOutcome` and `DeliverOutcome`
reduce each handler to one of six outcomes (`HandlerOutcome`), whose effect on the
rows is stated once (`OutcomeRows`). Each part of the invariant is then preserved
by each kind: `TypeStep`, `ShapeStep`, `LeaseStep`, `PrerequisiteStep`, and
`ProductionQuiet`, `ProductionAssign`, `ProductionOutcome` for the second invariant;
`FixtureStays` says that a fixture once used leaves its approval behind, so that the
second invariant is inductive under `FixtureUnused`.
Temporal steps combine these by PTL.

`GoalsProofs` proves for any plans, tasks, budgets and any finite set of runs, with no
assumption on timing:

| Theorem | States | Assumes |
|---|---|---|
| `GoalTypeCorrect` | `[](GoalTypeOK /\ TypeOK)` | |
| `CancelledGoalsAreQuiet` | `[]CancelledGoalIsQuiet` | |
| `PlansEndQuietly` | `[]PlanEndsQuiet` | |
| `ConcurrencyHolds` | `[]ConcurrentRunsBounded` | |
| `CancellationIsFenced` | `CancellationFences` | |
| `GoalKeepsStore` | lease exclusion, leases kept, one unsettled run, no stranded task | |

**The argument.** `GoalInv` joins the properties with the store's `RowsInv` and
`ProductionInv` (no goal uses the fixture) and three links between the goal and its runs.
`RunHasPlan`: a run belongs to a task that a plan has materialised. `CancelPauses`: from its
fence to its end a cancellation finds the goal paused: a resume is refused, a new plan
keeps the goal paused, and the edges of the other callers do not leave that status. This alone keeps
`assignTask` out.
`WorkNotReviewed`: the task of a run that may be alive is neither in review nor done. It is
why `completeGoalIfAllTasksDone`, which looks at task statuses only, never completes a goal
with a process left: every run that may be alive is of a task of the current plan, which
would be done. Every step but `AcceptPlan` and `CommitCancel` is one of `RunStore`
(`StoreStep`), so the lemmas about the store carry over, and every step but an assignment is
`Calm`: no run appears or comes back to life, no lease is taken, a terminal task stays
as it is. What remains is one lemma on the moves of each of goal, plans and cancellation.

`ClientProofs` proves for any number of commands, requests, losses and crashes; for any
members, codes, devices, sessions, sockets, browsers, subjects, addresses, flows and callbacks; for any
texts, tries, screens and logins of a composer, and for any page size, messages, removals and
replies of a room:

| Theorem | States | Assumes |
|---|---|---|
| `CommandTypeCorrect` | `[]CommandTypeOK` | |
| `AnswersCorrect` | `[]AnswersAreTrue` | |
| `SessionsEnd` | `NothingSentAfterSession` | |
| `CommandsInOrder` | `[]AppliedOnceInOrder` | `~Overlapping` |
| `AccessInvHolds`, `AccessIsSafe` | `[]AccessInv`, `[]AccessHolds` | `AccessAssumption` |
| `LoginInvHolds`, `LoginIsSafe` | `[]LoginInv`, `[]LoginHolds` | `LoginAssumption` |
| `AccountsAreSafe` | `[]AccountsHold` | both |
| `ComposerInvHoldsAlways`, `ComposerIsSafe` | `[]ComposerInv`, `ComposerHolds` | |
| `TimelineInvHoldsAlways`, `TimelineIsSafe` | `[]TimelineInv`, `TimelineHolds` | `TimelineAssumption` |
| `RoomsAreSafe` | `RoomHolds` | `TimelineAssumption` |

`TimelineAssumption` says that a page holds at least one message (the routes allow no less) and that
the bound on replies is a number; the others are named below, with those of `PartsProofs`.

**The argument, commands.** Two invariants, one for each side. `RowInv` is about the
server's rows: no command is applied twice, a request in a handler has its key
reserved and is alone there, what is applied has a row, a stored answer and a
settled command's outcome are true, and nothing is sent before it is submitted. It needs no assumption on timing. Its core is that
`Reserve` is the only way into a handler and takes a key without a row only. `FlightInv` is about the
queue: the commands waiting are the end of the submissions, every command after
the head was never sent, only the head (or a command of an ended session) has a
request under way, an awaited request is the head's only one, and commits follow the order of
submission, but for commands of an ended session. It is false when requests overlap
(section 5), hence the assumption. The steps are first reduced to three kinds, by
what they do to the rows and the requests: those of the client (`ClientEffect`),
requests that end (`Fades`) and requests that advance in the server (`Advances`).

**The argument, accounts.** `AccessInv`: what is active, pending or paired is `Current`, issued in the present
epoch of a member that is not suspended, so a transaction that only looks at the member's suspension
is enough for a code that was read before. `DevicesCurrent` and `ClaimsComeFirst` make a code that a device has
never pending again. Of sockets, `SocketsChecked`: a client's credential was alive at the last
look, `LastLook`, now or at the instant before; and `RevokedIsCut`, which the steps that end a credential keep by
promising a close (`CredentialsEnd`), and `JoinRegistry` by being marked. `LoginInv`: cookies and the
bindings callbacks come with are of flows their browser began (`BindingsAreOwn`), a flow is in the
hands of one callback from the compare-and-set to the session and opened nothing before
(`FlowsTakenOnce`), and the user of a callback stays the user of its subject
(`UsersAreKnown`), since `provisionUser` never takes an identity to another user.

**The argument, posting.** `ComposerInv` follows keys, not requests. `KeyTellsText`: a key goes by one text, on the
screen, in storage, in a call, on the wire or in the room. `OneKey`: a text that is not in doubt goes by one key; a text
whose refused retry left an earlier attempt unanswered is in doubt, and exempt. `StoredFits`: what is stored
under a key has its answer still to come (`calls`), or its text has left the screen, the storage and the
wire for good. Two messages with one text would have one key by `OneKey`, and the server stores a key
once. `SessionsApart` keeps each text on its side of the last login.

**The argument, showing.** `NoGap` is not inductive: a client takes pages that were read earlier, so `TimelineInv` says of each
what it was when it was read. `FetchFits`: an answer on its way is the newest page, the one after or the one
before the cursor it was asked with, and its list of removals names all that was removed and shown when the
refresh began. `WebFits`: what the web has collected joins the cursor it began with to
the end it has reached, while nothing else moves that cursor. `IosFits`: iOS asks for
the next page at its cursor as it is. `AsideFits`: a page asked for beside the refresh is the one before the first cursor.
`CountsFit`: no count read exceeds the replies there are, and on the web none shown
exceeds what the refresh has read; the rest is that an earlier page the web may still take has no
thread the refresh has read (`ReadsNoRoot`). `TimelineInv` was checked by TLC first, with the
bounds of `parts`. The lemmas about
merging lists (`MergeDomain`, `MergeCounts`, `ShownFacts`) carry most steps.

`EventSyncProofs` proves for any log, batch limit, client program and bounds:

| Theorem | States | Assumes |
|---|---|---|
| `SyncTypeCorrect` | `[]SyncTypeOK` | |
| `NothingIsForgotten` | `[]NothingForgotten` | `Timely` |

`Timely` is the timing of section 5 that the code relies on and does not enforce:
`QuietStart`, no early read of the web client, and a catch-up of the SDK that neither
fails nor is overtaken by live frames. The run uses the largest `EarlyReads`, `Overtaken` and
`LostReplays` it allows.

**The argument.** `ShapeOK` adds to the types how the server's state and the ends of the
socket go together (`Structure`): a `since_cursor` is inside the log, a stopped server has no
peers, a socket that is not open has no frames. It proves the first theorem and needs no timing.
`SyncInv` adds `Delivery`. Its centre is `Covers`: while there is a connection, every
followed event the client must learn of is known or read for, on the wire, ahead of the
publisher, or promised by the catch-up of this connection. Without a connection the next one must cover what is
missing, which web and ios get by reading again (`ReadsAgain`) and the SDK by its
cursor (`NothingBehind`): the cursor passes an event only if it was taken or is read
for. That takes an order on the wire. `NoGaps`: everything between the cursor and a
frame's events is in that frame or ahead of it, or a marker is. What it rests on differs before and
after the SDK's first event. `BeforeFirst`: until then it has no cursor, so there
is no catch-up, and the frames come from the publisher alone, in order.
`AfterFirst`: from then on nothing older than that event is pushed or asked for, so no new frame can make an
earlier event one the client must learn of. `CatchUpFirst`: its catch-up starts at or before its cursor and
finds the wire empty; this is where an overtaken catch-up would break the proof.
There is one lemma for each action or group of like actions; `ReplayFrames`,
`LongerWire`, `TakenFrame` and `TakenWire` say what a catch-up or the publisher adds to the wire and
what the client takes off.

`DaemonProofs` has two independent parts. Of the supervisor it proves, for any restart
policy, any number of processes and any number of starts and stops:

| Theorem | States | Assumes |
|---|---|---|
| `SupervisorTypeCorrect` | `[]SupTypeOK` | |
| `SupervisorCorrect` | `[]SupervisorHolds` | |

**The argument.** `SupInv` strengthens each part of `SupervisorHolds`. `ChildHeld`: a
process that is alive, or has ended without the supervisor having taken note of it, is
the child, so that `spawnNode`, which is only called while the state is "stopped",
never finds one. `BackoffFits`: no timer is of a later generation than the present, and one
of the present generation waits only while nothing runs; hence `start` and `stop`, which open a
new generation, void every timer at once. `BudgetPays`: restarts taken from the budget
pay for each process tried after the first, and for the one a valid timer is about to
start. Without the last clause a timer could spawn a process nobody paid for. The step has
a lemma for each operation (`StartStep`, `StopStep`, `ExitStep`, `BackoffStep`, `TickStep`), and
`SpawnFacts` for what two of them share.

Of a launch on a managed daemon it proves, for any number of live events, attempts, crashes
and troubles, and with no assumption on timing:

| Theorem | States | Assumes |
|---|---|---|
| `JournalLeads` | `[]ServerFollowsJournal` | |
| `PromiseKept` | `KeepsPromise`, the refinement of `RunPromise` | |
| `NothingRecalled` | `NoRecall` | |

**The argument.** `ManagedInv` joins what the journal keeps by itself with what the daemon's
memory, the process and the network may say of it. Of the journal, `JournalOK`: live events come
first, then the two events of the settlement, then the two of its correction (`RoleAt`); an
attempt is opened only when none is open, and an event with all attempts used is exhausted;
the terminal event of a completed run is claimed only after its retention is accepted.
`Steady` is what makes that order hold: while nothing has failed the launch (`OnCourse`), no
event is exhausted and no event after an undelivered one was ever claimed, so the first
event wanted is the one the claim is for.

Late answers are the difficult part. A receipt may come for an attempt that its delivery loop
gave up, after a deadline, a settlement or a correction. Each transaction of the journal
is therefore described, for *every* attempt it has ever opened (`AttemptKnown`), by one
relation, `Turn`: events and attempts are never lost (`Follows`), only the events named become
delivered (`Commits`), and a launch that is still on course afterwards has changed in that
attempt only (`Course`). Turns compose (`TurnOn`), so an answer is proved as the sequence of
its parts: the clock is found unknown, the abort is latched, the attempt fails, the outcome
is corrected (`FailTurn`, `CorrectedTurn`, `LiveAnswerTurn`, `ClosedAnswerTurn`). `DueAnswer` says why
a window that passed cannot leave a completed outcome standing.

`LaunchFits` ties the step of a start to the row and to the process: past the last lookup there
has been no launch and the intent is stored, a settlement waits for the confirmed exit, an
interrupted claim means that the run fails. `DeliveryFits` ties the claim in hand, the claim
interrupted, the receipts waited for, the frames and the server to the journal. `ClaimFits` is the
part that `NoRecall` needs: a claim not yet exposed is for an event that is not superseded. It is
inductive only with a clause about launches on course: nobody waits for the receipt of an
attempt that has ended, so that no late answer can correct the outcome while a claim is in hand.
`StepOK` says of one step that it keeps the invariant, is a step of `RunPromise` or none, and
exposes nothing that was replaced; there is one lemma per action or group of like actions, and
`ManagedStep` combines them.

`RunDispatchProofs` proves for any finite number of runs, any number of connections, and
any budgets:

| Theorem | States | Assumes |
|---|---|---|
| `DispatchTypeCorrect` | `[]DispatchTypeOK` | |
| `OneProcess` | `[]SpawnedOnce` | |

No timing assumption is needed: both hold with `OrderedClose` and `PromptServer` either way.

**The argument.** `spawned[r] <= 1` says nothing of why. The daemon forgets its table of runs when
it restarts and forgets a start that failed, so what keeps a second process away is that
the start is never in two places. `OnePlace` orders the places the start of a run goes through: the
callback that has not read the run (`queued`), the dispatch past its last read (`Dispatching`),
the command (`OnWire`), the daemon's handler (`Starting`), the answer that it failed
(`Rejected`, under way or in the binding's queue), and the process. A run in one of them is in
no later one. `OneCopy` says that it is there once, on one connection: without it the
first of two copies could be rejected and the second one started. `EventsFollow` ties what the
store has of a run's events to its process: an event under way or stored comes
from a process that was started, the terminal one only after the receipt of `started`.
`InStepHere` says that a binding's callers wait for a stop that exists, that the
current binding is registered, and that a run is `starting` exactly while its start is in a
handler. `DispatchInv` is the conjunction of these with the types; the model's finite set of
runs matters once, where `NodeConnect` puts the events that wait in some order.

A step changes the queues in few ways, said by `Gain`: nothing new in them but a given set of frames, and
nothing repeated. The lemmas about queues (`AppendElems`, `TailElems`, `GainsAppend`,
`GainsTake`) then leave one lemma per kind of step: `ServerStepKeeps` for the server's
steps that start nothing (with `StoreStepKeeps` and `BindingStepKeeps`), `NodeStepKeeps` for
the daemon's, `FramesStayTrue` for the events under way, and a lemma of its own for each step
that moves a start on (`AssignKeeps`, `OnRunQueuedKeeps`, `SendRunStartKeeps`, `ReceiveStart`,
`StartFailsKeeps`, `StartSucceedsKeeps`, `ReceiveReject`). What the store's transactions do to the rows is taken from lemmas about
`RunStore`.

That the protocol implements the store it proves for any finite number of runs, at least one,
any number of connections, and any budgets:

| Theorem | States | Assumes |
|---|---|---|
| `DispatchImplementsStore` | `ImplementsStore` | `OrderedClose`, `PromptServer` |
| `ProtocolKeepsStore` | the invariants of `RunStore` on leases and tasks, `SettledRunIsFinal` | `OrderedClose`, `PromptServer` |
| `TasksFreedByTheirRuns` | `TaskFreedByItsRun` | `OrderedClose`, `PromptServer` |
| `EndsAreTrueAlways` | `[]EndsAreTrue` | the same, and at most one fault |
| `LeasesCoverProcesses` | `[]LeasesCoverProcess` | the same, and at most one fault |

**The argument.** Two steps of the store carry an assumption about the node: an event is what a
process of this run may send next (`NodeDelivers`), and a start is rejected only while the server has
not failed the run for another reason (`NodeRejectsStart`). The first follows from
`EventsFollow` (`EventHead`, `EventStored`). The second needs the order of
connections, which `RejectInv` adds to the invariants above. `InOrder`: one
connection at a time; the earlier ones are closed and their work is done; a start is on the
present connection or comes from a closed one; in the queue of answers to starts wait
only rejections. `Unasked`: from the command of a start to its
rejection (`Fresh`, `Refused`) the server has not `Asked` for the run again, by a snapshot, a list to resume,
a reconciliation or a confirmed exit, and if the run failed it failed for a lost connection.
Without the last clause a rejection could come after the run was settled and its task given to
another run, and `failRunStart` would free that task (section 5).

Most steps open and close no connection; `Calm` says what they have in common, and `CalmStep` and its
parts (`QuietKeeps`, `AskedKeeps`, `RunsKeep`) that they preserve the invariant, with a lemma for each group
(`StoreCalm`, `BindingCalm`, `WorkCalm`, `DaemonKeeps`, `DaemonAnswers`, `HandlerKeeps`). The others
have their own: `ConnectOrdered` is where `OrderedClose` is needed, `ActivateAsked` and `CloseAsked`
where `PromptServer` is. Then `DispatchMoves` takes every step of the protocol to a
`StoreMove`, and `MoveIsStep` takes that to a step of `RunStore` or a stutter. The
second theorem composes the first with `RunStoreProofs`. For the third, the approval fixture is apart from the
dispatch (`FixtureApart`), so a task has one unsettled run, and `FreedWithRun` finds in each step that frees
a task the run that fails with it.

The last two are about what is *said* of a process. `Signals`: whatever tells the server of a run's end, the receipt
of a stop or a resume that found nothing, the list after a reconnection, a terminal event under way or
stored, a caller that was told, implies that the process has ended and none will come. That
needs what will not come any more: a run that is asked about was assigned, and no
start of one that is resumed or listed is still on its way (`Commands`, `Coming`, kept by the
`StartsMove` lemmas). An event the server refused makes the daemon stop the run, and if that fails the daemon
forgets it (section 5); `RefusalOK` counts the fault a refusal takes, so that none is left for the stop.
`LeaseRows`: the leases of an assigned run are held until its process has ended. `FreedIsStored` goes through what
frees leases: the rejection of a start frees them where nothing was started, everything else only
after an end was stored, which `Signals` makes true.

`StorageProofs` proves for any number of programs, artifacts and releases, of concurrent updates, and of turns, tasks,
runs and grants:

| Theorem | States | Assumes |
|---|---|---|
| `StorageTypeCorrect`, `StorageIsSafe` | `[]StorageTypeOK`, `[]StorageHolds` | `StorageAssumption` |
| `RecordsTypeCorrect`, `RecordsAreTold` | `[]RecordsTypeOK`, `[]RecordsHold` | `CallNames` |
| `TurnsTypeCorrect`, `TurnsAreOrdered` | `[]TurnsTypeOK`, `[]TurnsHold` | `TurnsAssumption` |
| `WithdrawalsStopWork` | `[]WithdrawnWorkStopped` | `TurnsAssumption` |

The assumptions keep names apart and numbers natural.

**The argument, storage.** `StorageInv` turns on the custody of the lock. `OneLock`: at most one
program is between its `mkdir` and the `rmdir` that ends its use of it, or between
the removal of a dead owner's `owner.json` and the `rmdir` after it; the lock directory then exists and
`owner.json` names that program as soon, and as long, as it has the database open. `DeadStayDead`: an owner
that a tool found dead has ended and is never started again, so `owner.json` still naming it
means that nobody has custody, which is what makes the removal safe however
many tools race. `ServerFits`
and `CopyFits` follow the database, which only its owner changes: a serving program's
release is the database's, a row's artifact was published, and what a program has dumped is what the database
holds until it has adopted or copied it.

**The argument, records.** `RecordsInv` says what a call that waits between its read and its write can rely on.
`WaitsOnce`: a call waits at one place. `Plans`: the status a call read is one from which it may write what it
will write. `OneDecision`: a proposal has one decision, in the table or under way. `LastTells`, for decisions,
handoffs and blockers each: the last event tells the status of the row, or a call under way is about
to tell it.

**The argument, turns.** Four things in `TurnsInv` support each other. Runs are numbered in order, a task has one that
is not over, and a run whose end or exit is not confirmed keeps its task (`RunsInOrder`, `RunKeepsTask`). The tasks of a conversation follow
each other and all but the last are closed (`TasksInOrder`, `TurnAndRun`), so a turn that starts finds the one before
finished. What the pump, the calls and the routes remember over their waits is still of use (`PumpKnows`,
`CallsKnow`, `TalkKnows`): a call that waits for a stop knows its turn's run, a `finishStopping` under way
has an active turn. And `WithdrawalKnows`: the list of a withdrawal holds all
work under the grants that have passed, and an item leaves it unremarked only when nothing of it is left. Each action is one of
five kinds of step (`RunStep`, `TurnStep`, `TalkStep`, `FinStep`, `WithdrawalStep`), and the lemmas
are about these.

`PartsProofs` proves for any finite set of tasks, for any paths of any segments, owners, runs
and leases, for any computers, launches and restarts of the desktop, for any number of
sockets and events of a managed session and any limits of its clocks, for one agent's process and
its adapter, and for any attempts of an owned run and any meddling with its directories:

| Theorem | States | Assumes |
|---|---|---|
| `GraphInvHolds`, `GraphIsSound` | `[]GraphInv`, `[]GraphSound` | `GraphAssumption` |
| `LeaseInvHolds`, `LeasesProtect` | `[]LeaseInv`, `[]LeasesProtectFiles` | `LeaseAssumption` |
| `DesktopInvHoldsAlways`, `DesktopIsSafe` | `[]DesktopInv`, `[]DesktopHolds` | |
| `LinkInvHoldsAlways`, `LinkKeepsOrder` | `[]LinkInv`, `[](LossIsBounded /\ OrdinaryInOrder)` | `LinkAssumption` |
| `LinkIsSafe` | `[]LinkHolds` | `LinkAssumption`, `HandshakesInTurn` |
| `CliInvHoldsAlways`, `CliIsSafe` | `[]CliInv`, `[]CliHolds` | |
| `OwnedInvHoldsAlways`, `OwnedIsSafe` | `[](GitInv /\ WorkInv)`, `OwnedHolds` | |

The assumptions on constants say of what kind they are: tasks, leases and the write paths of a run are finite
in number, every segment of a path can be put in lower case, the owner a run reserves for names it as
the holder, lifetimes are natural numbers, users of earlier sign-ins have an account and an address each and new ones are
numbered apart from them. `MCParts` evaluates them.

**The argument, task graph.** `Acyclic` asks for places in `1 .. Cardinality(Tasks)` that every edge
goes up. An edge whose end does not reach its start leaves such an order, if one may use other numbers: everything its
end reaches moves up by more than all places (`OrderSurvivesEdge`), which is why a search from the
end alone is enough. `PlacesExist` then finds places in range for any numbers: a task's place
is one more than the number of tasks below it. The rest of `GraphInv` says that edges join tasks that exist, that
what is open was opened with all it waits for done, and that no acceptance
left a task behind. No waiting is circular because the first task of those before a waiting one
that are not done waits for nothing (`WaitingEnds`); it is there by the order.

**The argument, leases.** The invariant is about normalised paths, the property about files. `LeaseInv`: a row's path is the
normal form of what was asked for, leases in force conflict only within a run, a running run has
a lease without expiry on each of its write paths, unless a user released it. `NormalIsPlace` joins the two: a
path that `normalizeLeasePath` does not refuse leads where the file system
takes the raw one. Both go through the same segments, one by a stack that is refused below the
root, one by a place that stays there; the first segment after which they differ cannot exist.
(`FirstPlace` gives it: an induction over the numbers of the segments, stated as the existence of a smallest
counterexample.) Two places over one file are one under the other (`PrefixesOfOne`), and that is a conflict.

**The argument, desktop.** A worker process is of an attempt, the application's record of it is `child`, and
the events of the operating system reach the application in any order after the process is gone.
`DesktopInv` says which of them can still come: one that did not end is recorded (`ChildNotEnded`,
`RunningKnown`), the attempts of a computer succeed each other (`AttemptsFit`), a failed
end is remembered (`FailureKnown`), and a stop, a poll or a claim under way is about the attempt it began
with (`StopKnown`, `PollKnown`, `OperationFits`, `ClaimsCounted`, `WorkersFit`). Most steps are one of four kinds: the events
of a process that lives (`CourseKept`), those that settle nothing (`QuietKept`), a spawn
(`SpawnKept`), an end (`EndedKept`). TLC checked `DesktopInv` first, on two computers with three launches.

**The argument, managed session.** `LinkInv` has three parts. *Clocks*: `LossCounted` (the loss timer runs with
the ghost `away` and no session is taken over after the grace) and `ProofCounted` (how long ago the
last probe was answered, given whether one is under way); time stops at a timer that is due, so that
each has a bound. *Frames*: `AnnouncedOnce`, a session is announced before it is proved and once; `Answered`,
events are only on sockets whose probe the server has answered, and only bindings that were registered have
queued any. *Events* (`TakenIn`): they are sent one after another, so only the last can be
pending; what was taken in, or told to be accepted by a receipt under way, was sent; what is on sockets
and in queues are events; and the order itself. When a binding takes one in, from whichever socket and however late,
everything before it is settled: delivered, hence in by the first half of `OrdinaryInOrder`, or failed. Failed stays
failed and the log only grows, so the order stays (`OrderStays`, `PrefixHas`). A lane that is replayed
has one event at most to write (`InSeries`). `InTurn` adds, where handshakes come in turn, that the
latest socket holds the registry once it is active, hence that its probes and events are not
refused; it is the only part that needs the assumption (section 5). TLC checked `LinkInv` on the run's
instance before it was proved.

**The argument, an agent's process.** What the adapter knows comes later than what is so, and `CliInv` says of each
piece of its knowledge that it is still true: no process comes back, so an exit, a
close or an empty group stays one (`WatchFits`); the guardian is asked for once, behind the agent, and is disarmed or ends well
only when nothing of the group can write (`GuardianFits`); and whoever was told of a stop or an outcome was told so when the
group was gone (`SaidFits`). The set of places where start-up, stop and observation stand is finite: each
action disturbs a few conjuncts.

**The argument, owned work.** `GitInv`: every event the daemon has seen of Git's group is true of it,
the drains follow the events, and the verdict is the one the processes earned. `WorkInv`: directories have identities that are given
out once (`IdsAreGiven`), so an attempt that finds the identity it made has the very directory; the root, the
branch and Git's registry are as the attempts' own steps or a meddler left them (`RootsAreKnown`);
and each stage of an attempt remembers what it has checked (`StagesFit`). No identity comes back,
which is why a check at one `await` and a use at the next agree.

`TypeOK`, `GoalTypeOK`, `CommandTypeOK`, `SyncTypeOK`, `SupTypeOK`, `StorageTypeOK`, `RecordsTypeOK` and `TurnsTypeOK`
are proved and checked by no run; `DesktopTypeOK` and `LinkTypeOK` are conjuncts of the invariants above.

Every safety property a passing run checks is stated by a theorem. Only model-checked: the liveness
properties (`DrainEnds` of the managed daemon among them). Out of the prover's reach and left to TLC: liveness, fairness and
`ENABLED`, and induction over data (what a recursive definition computes).

## 5. Assumptions and known divergences

### Timing assumptions, named by constants

* `OrderedClose`, `PromptServer` (`RunDispatch`): a daemon waits at least a second
  before it reconnects (`ws-transport.ts:147`). `OrderedClose` says the server has seen
  the old socket's end by then, `PromptServer` that database work under way is done.
  The runs pass `FALSE` for the first wherever the property allows it. Without the
  second, `EndsAreTrue` (`ConfirmedIsDead` and `StopConfirmed`), `LeasesCoverProcess`, `ImplementsStore`
  and `TaskFreedByItsRun` fail; the start that a resumption overtakes (below) is one of these.
  The theorems on the last four assume both. Without the first the two hold for the two
  connections of `dispatch_safety`, but TLC finds them violated with three: a rejection read late from
  the first connection frees the task of a run assigned after it (`run-service.ts:502`).
* `Overtaken` (`EventSync`): clients whose catch-up may be overtaken by a live
  frame. For the SDK this breaks `NothingForgotten`: the live frame raises the
  cursor past events the catch-up was still to bring, and a drop then loses
  them, though `sync-client.ts` says it "catches up exactly".
* `LostReplays`: clients whose catch-up may fail. The failure is swallowed
  (`client-ws.ts`: "live delivery still converges the client"); for the SDK nothing
  else brings the events, and an iOS client is safe only if its own read came
  after the subscription.
* `EarlyReads`: clients whose read may be served before their subscription is
  applied. The web client sends no `since_cursor`, so an event committed after
  that read and published before the subscription is not shown until the next
  event or poll.
* `QuietStart`: nothing is committed between `app.listen` and
  `publisher.start` (`main.ts:75`). What is committed there is never pushed: the publisher
  starts at the end of the log.
* `HandshakesInTurn` (`ManagedLink`): the server takes no hello while an earlier socket's handshake is
  open there. The daemon waits a second before it connects again (`managed-ws-transport.ts`); the server enforces nothing. The
  run passes `FALSE`, and with its two generations nothing depends on it. With three
  sockets and a grace of ten ticks `LinkHolds` fails without it (below, `UsableIsProved`), and `LinkIsSafe`
  assumes it; `LinkKeepsOrder` does not.
* `Overlapping` (`CommandReplay`): a request is repeated while the server still
  handles the first. The repeated one gets 409 "still in progress"
  (`idempotency-middleware.ts:96`) and the queue settles the command as failed although it is
  applied; later commands may overtake it.

### What the code does and no run shows

Execution:

* When the server refuses an event and the stop throws, `node-client.ts:785` still
  removes the run and remembers it as finished, though the comment at `:766` says the
  stop comes first: the next `run.stop` is confirmed while the process lives. It
  takes two faults.
* `onRunResume` (`node-client.ts:1001`) answers `process_exited` for a run never
  seen and keeps no tombstone; the server releases the leases, and a `run.start` that
  `onRunQueued` was about to send spawns the process. `PromptServer` excludes it.
* With the development approval fixture a run may complete while its task awaits
  an approval: the task is stranded (`run-service.ts:322`); a rejection blocks the
  task of a running run, and retry and assign start a second one
  (`lifecycle-service.ts:211`).
* `failRunStart` frees the task of its run also when the run was settled before
  (`run-service.ts:502`): harmless while `OrderedClose` and `PromptServer` hold (`TasksFreedByTheirRuns`).
* A goal completes only inside an accepted review that finds it running
  (`lifecycle-service.ts:526`): with a cancelled task, or when the last review is
  accepted while the goal is paused, it stays running
  (`docs/v3-115-goals-schema-design.md:50`).
* Resolving the last blocker leaves a goal blocked
  (`collaboration-service.ts:435`, `docs/v3-115-goals-schema-design.md:52`).
* A crash after a handler's commit and before its answer is stored leaves the
  key reserved: every replay is refused as still in progress.
* An answer without a JSON body deletes its idempotency row: a replay runs again.
* A command submitted in the continuation of the previous one's promise joins a
  flush that has ended and waits for the next trigger.
* A run's failed start or disconnect does not count towards the capacity of
  its agent instance, although its process may live (`scheduler.ts:153`).

Managed daemon:

* After a restart a drain that finds an attempt of the earlier process open
  waits until the next `run.resume`.
* A `run.start` that is redelivered after a restart is refused.
* A user's stop while closed delivery is under way cancels it until the next restart.
* Any error of the journal makes it unusable for the life of the process.
* The server closes a handshake that takes too long with 1008, which the daemon takes as
  permanent; only its own earlier deadline avoids that. A loss before the first usable
  session is fatal.
* A half-open socket whose probe is handled late, within the ten seconds of its initialization, registers
  its binding over that of the newer session (`node-ws.ts:97`). The next probe of the newer one is answered with
  1008, "managed probe session mismatch" (`node-ws.ts:174`), which the daemon takes as permanent.

Turns and discussions:

* `retryAssistantTurn` does not look at the discussion of its turn: a failed turn
  of a closed discussion can be retried and runs its planning task.
* A retry of an earlier turn while the pump works on its snapshot lets a later
  one run first.
* A retry by another user puts that user's consent on the turn, whose dispatch
  then waits for ever.
* A withdrawal that had listed a turn cancels it although it was retried under
  a newer grant since.

Graph, leases, access, desktop, processes:

* `createDependency` does not look at the status of the dependent; an edge that is
  deleted, or added to a prerequisite already done, leaves its dependent in the backlog until
  somebody marks it ready.
* The marks of expired leases are rolled back when the acquisition that made
  them conflicts; `expires_at` is compared as text; acquiring for a run does not check
  that the run is active.
* The start of a sign-in overwrites the flow cookie of another tab, and every answer of the
  callback clears it (`auth-routes.ts:128`, `:139`): of two sign-ins in one browser both may fail.
  A known user whose new address is another's cannot sign in (`auth-service.ts:220` against the
  unique constraint).
* The supervisor takes a heartbeat for healthy whoever sent it (`supervisor.ts:131`): within
  30 seconds of a crash that of the predecessor marks the new process running and clears the
  restart budget. `start` while it is stopping is ignored.
* A socket whose authentication overlaps a revocation joins afterwards. A client
  socket is closed at its next check, a node's is not checked again.
* A member's suspension closes sockets without an offline event, and a
  reconnection within 90 seconds emits no online event.
* After an unclean end of the worker no launch, stop, logout, pairing or quit
  of the desktop succeeds until it is opened again; the crash of an ordinary worker is not
  such an end.
* A daemon that dies between the spawn of a process and that of its guardian
  leaves it unguarded. A termination that failed is remembered: later stops fail, and
  the run has no terminal event. A stop between the exit of an ordinary agent and the end of its
  group turns its outcome into `cancelled`; an owned one keeps its own.

Rooms and worktrees:

* On iOS the answer to a message whose screen was left clears or rewrites the stored
  draft (`RoomMessagesViewModel.swift`), which may by then hold what was typed on the reopened screen.
* A refusal (4xx) of a retry ends the submission although an earlier attempt went
  unanswered and may be stored: the same text, sent again under a new key, is stored
  twice (`StoredOnce` excepts it as `doubted`).
* The web shows the answer to its own message as it was stored, which may take a
  reply count back until the refresh the same step begins (`CountsGrow` excepts it).
* An attempt that fails after Git has made the branch leaves branch and root behind, and
  every later attempt of the run is refused; nothing is cleaned up.

Records:

* A promotion that overlaps another fails: `createDecision` looks (`collaboration-service.ts:197`) and inserts
  (`:212`) in two operations, and the unique index refuses the second insert where the comment (`:192`)
  returns the existing record.
* The sweep after an approval overwrites: `resolveBlockersForSource` tests the status (`:485`) on rows read
  earlier; a risk accepted in between becomes "resolved", which the comment (`:465`, "still-active") does not intend.
* The other fields a request leaves out are written back as it read them (`collaboration-service.ts:253`,
  `:341`, `:448`): of two overlapping updates the later one undoes the note of the earlier. The `from` of an event is
  the status that was read.
* A stop of the server between a write and its event loses the event; one between the
  decision of an approval and its sweep leaves the blocker open.

Storage:

* Two unlock tools that overlap leave a lock nobody can remove: the marker `recovery` goes
  (`storage-operations.ts:151`) before the lock directory (`:152`). A tool that creates its marker in between makes
  the first tool's `rmdir` fail and finds no `owner.json`: both fail, and every later unlock finds no owner, where
  the comment (`:132`) and `preview-storage.test.ts:113` expect exactly one success.
* A death between the `mkdir` of the lock and the end of the write of `owner.json`, or between the
  removal of `owner.json` and that of the directory, leaves a lock without a readable owner; `unlock` refuses it
  for ever, as it does when a release finds another tool's marker in the directory.
* Artifact files whose row was never written stay, and are part of every backup.

## 6. What is not modelled

* Of `RunStore`: editing of tasks, outputs and evaluations.
* Of `RunDispatch`: more than one computer at once, allocation of managed
  workspaces, output chunks, retention.
* Of `Goals`: the content of plan specs, archive, goals without plans, cost and
  token budgets (accumulated by events), checkpoint content other than active runs.
* Of `EventSync`: topics that change during a connection, the inbox filter, the
  bound of 16 frames before authentication, periodic polls (they repair what
  section 5 lists as missed).
* Of `CommandReplay`: chat messages with their own identity, other routes.
* Of `ManagedRun` and `ManagedLink`: several runs at once, `bindRun`, commands
  before the ready mark, best-effort output, a stop asked for before the launch. `ManagedLink` follows the
  events of one run: those of several are in the lane at once, each run's in its own order. What makes
  the server reject an event or leave it without a receipt is a choice there, as is whether
  a rejected one was committed; a receipt that does not match the event it names cannot occur.
* Of `Turns`: several users, the limit of 20 pending turns, the admission check of
  the turn's user, goals of a room and inherited execution gates, the local-only policy,
  content moderation, the parsing and proposal of a plan.
* Of `TaskGraph`, `FileLeases`, `Access`: advisory propagation of blocked tasks;
  list routes; `enrollDeviceComputer`, roles.
* Of `Login` and `NodeSupervisor`: roles, the single checks of an identity token, the session cookie;
  listeners that call back into the supervisor, the environment it builds.
* Of `DesktopWorker` and `CliProcess`: configuration editing and Codex settings;
  the Windows process tree, the event queue and redaction, a descendant that leaves the group.
* Of `RoomTimeline` and `RoomComposer`: destinations and mentions, reactions, search, edits of a
  room, the content filter, drafts of other rooms.
* Of `OwnedGit` and `OwnedWorktree`: the output of Git and its parsing, path aliases and links,
  configuration checks of the repository, retention of finished worktrees, the binding of a workspace.
* **Presence**: derived from heartbeats and runs when it is read.
* Of `Records`: fields other than the status, the checks of links, the edges of who waits on whom.
* **Memory and skills, most of administration**: rows of their own, edited one
  at a time, with no transition of runs or tasks of their own.
* Of `Storage`: the schema, the blob and key-value stores no program uses, the seed, several data
  directories at once.
* **User interfaces, scripts, deployment, site**: I/O and presentation.

## 7. Plan

In order:

1. *done* `StateMachines`, `RunStore` and its proofs; `RunDispatch`, the refinement and its proof;
   `Goals` and its proofs; `EventSync`; `CommandReplay` and their proofs.
2. *done* The managed daemon (`ManagedJournal`, `ManagedRun`, `RunPromise`,
   `ManagedLink`), `Turns`, `TaskGraph`, `FileLeases`, `Access`, `DesktopWorker`, `CliProcess`.
   *done* `RoomTimeline`, `RoomComposer`, `OwnedGit`, `OwnedWorktree`, `NodeSupervisor`, `Login`, `Storage`, `Records`.
3. Presence; retention of worktrees.
4. *done* The proofs about `Storage`, `Records`, `Turns`, `RunDispatch`, `Goals`, `NodeSupervisor`, `ManagedRun`, `TaskGraph`,
   `FileLeases`, `Access`, `Login`, `DesktopWorker` and `ManagedLink`, and both refinements.
   So are those of `CliProcess`, `RoomTimeline`, `RoomComposer`, `OwnedGit` and `OwnedWorktree`.
