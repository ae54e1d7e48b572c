---------------------------- MODULE OwnedWorktree ----------------------------
(***************************************************************************)
(* The worktree of a run that the daemon owns: the checks before it        *)
(* (worktree-preflight.ts), its parent directory (workspace-namespace.ts), *)
(* its reservation and materialization (worktree-reservation.ts), its      *)
(* context file (owned-context.ts) and the launch in it (node-client.ts,   *)
(* process-adapter.ts), all under artood/src.                              *)
(*                                                                         *)
(* The attempts of one run share its root and its branch: a start command  *)
(* delivered again, to the daemon or to the one that replaced it.  What    *)
(* happens between two awaits is one step; between steps other processes   *)
(* do as they like, a few times, but for bringing back a directory that    *)
(* was replaced: the comment of preflightFreshWorktree says the checks are *)
(* not safe against all of it.  Paths are resolved; aliases and links are  *)
(* left out, and so is the order of the reads within one check.  What one  *)
(* run of Git comes to is in OwnedGit; here it ends well, or not, or goes  *)
(* on behind an attempt that has ended.                                    *)
(***************************************************************************)
EXTENDS OwnedGit

CONSTANTS WorkAttempts,   \* attempts to start the run
          LastMeddle      \* bound: what other processes do to its directories

VARIABLES container,  \* the parent of the root: 0 if absent, else its identity
          root,       \* the directory at the root, or NoRoot
          ids,        \* identities given so far
          branchAt,   \* the commit of the run's branch, 0 if it does not exist
          source,     \* the commit of the source's HEAD
          registry,   \* is the root registered as a worktree
          at,         \* how far each attempt is
          handle,       \* what its handle remembers
          adding,     \* its `git worktree add`
          meddled

diskVars == <<container, root, ids, branchAt, source, registry>>
workVars == <<diskVars, at, handle, adding, meddled>>

NoRoot == [id |-> 0]
NoFile == [id |-> 0]
\* by, of: ghosts, who made the directory and whose checkout it holds.
NewRoot(id, by) ==
  [id |-> id, by |-> by, of |-> "none", has |-> "nothing", onBranch |-> FALSE, file |-> NoFile]

WorkInit ==
  /\ container \in {0, 1} /\ root = NoRoot /\ ids = 1
  /\ branchAt = 0 /\ source = 1 /\ registry = FALSE
  /\ at = [a \in WorkAttempts |-> "idle"]
  /\ handle = [a \in WorkAttempts |-> [container |-> 0, target |-> 0, file |-> 0, commit |-> 0]]
  /\ adding = [a \in WorkAttempts |-> "no"]
  /\ meddled = 0

-----------------------------------------------------------------------------
(* Checks *)

\* A cooperating step of attempt a.
Goes(a, from, to) ==
  /\ at[a] = from
  /\ at' = [at EXCEPT ![a] = to]
  /\ UNCHANGED <<source, meddled>>

\* absentTarget and the worktrees of the repository: a registered one whose
\* directory is gone fails the preflight too.
TargetAbsent == root = NoRoot /\ ~registry
SameContainer(a) == container = handle[a].container
\* assertBoundaries: the directories are the ones that were observed.
SameTarget(a) == SameContainer(a) /\ root.id = handle[a].target
StillEmpty(a) == SameTarget(a) /\ root.has = "nothing"
\* assertRepository of a worktree that was made: registered, with its HEAD on the
\* branch and at the commit of the preparation.
Verified(a) ==
  /\ SameTarget(a)
  /\ registry /\ root.has = "checkout" /\ root.onBranch
  /\ branchAt = handle[a].commit
\* assertFile: the file that was created, with the bytes that were written.
SameFile(a) == root.file.id = handle[a].file /\ root.file.bytes = "written"

-----------------------------------------------------------------------------
(* The attempt *)

\* provisionRunNamespace makes the parent unless it is there, and at its end
\* finds it unchanged and the target still absent.
Provision(a) ==
  /\ Goes(a, "idle", "namespace")
  /\ TargetAbsent
  /\ container' = IF container = 0 THEN ids + 1 ELSE container
  /\ ids' = IF container = 0 THEN ids + 1 ELSE ids
  /\ handle' = [handle EXCEPT ![a].container = container']
  /\ UNCHANGED <<root, branchAt, registry, adding>>
ProvisionEnds(a) ==
  /\ Goes(a, "namespace", "provisioned")
  /\ TargetAbsent /\ SameContainer(a)
  /\ UNCHANGED <<container, root, ids, branchAt, registry, handle, adding>>

\* prepareOwnedWorktree: the preflight, which reads HEAD, then the branch.
Preflight(a) ==
  /\ Goes(a, "provisioned", "preflight")
  /\ TargetAbsent /\ container # 0
  /\ handle' = [handle EXCEPT ![a].container = container, ![a].commit = source]
  /\ UNCHANGED <<container, root, ids, branchAt, registry, adding>>
PreflightEnds(a) ==
  /\ Goes(a, "preflight", "preparing")
  /\ TargetAbsent /\ SameContainer(a)
  /\ UNCHANGED <<container, root, ids, branchAt, registry, handle, adding>>
Prepare(a) ==
  /\ Goes(a, "preparing", "prepared")
  /\ branchAt = 0 /\ SameContainer(a)
  /\ UNCHANGED <<container, root, ids, branchAt, registry, handle, adding>>

\* reserveOwnedWorktree: the preflight again; then the mkdir is the claim.
Recheck(a) ==
  /\ Goes(a, "prepared", "claiming")
  /\ TargetAbsent /\ SameContainer(a)
  /\ UNCHANGED <<container, root, ids, branchAt, registry, handle, adding>>
\* Mutant: a directory that is there is taken, as for the parents.
MutMakeRoot(a) ==
  IF root # NoRoot THEN UNCHANGED <<root, ids>>
  ELSE /\ ids' = ids + 1
       /\ root' = NewRoot(ids', a)
\* mkdir without `recursive` fails on what exists.
MakeRoot(a) ==
  /\ root = NoRoot
  /\ ids' = ids + 1
  /\ root' = NewRoot(ids', a)
ClaimRoot(a) ==
  /\ Goes(a, "claiming", "reserved")
  /\ SameContainer(a)
  /\ MakeRoot(a)
  /\ handle' = [handle EXCEPT ![a].target = root'.id]
  /\ UNCHANGED <<container, branchAt, registry, adding>>

\* materializeOwnedWorktree: of an empty directory that overlaps no worktree.
Materialize(a) ==
  /\ Goes(a, "reserved", "materializing")
  /\ StillEmpty(a)
  /\ UNCHANGED <<container, root, ids, branchAt, registry, handle, adding>>
AddWorktree(a) ==
  /\ Goes(a, "materializing", "adding")
  /\ StillEmpty(a) /\ ~registry
  /\ adding' = [adding EXCEPT ![a] = "asked"]
  /\ UNCHANGED <<container, root, ids, branchAt, registry, handle>>
AddEnds(a) ==
  /\ adding[a] = "done"
  /\ Goes(a, "adding", "verifying")
  /\ SameTarget(a)
  /\ UNCHANGED <<container, root, ids, branchAt, registry, handle, adding>>
VerifyWorktree(a) ==
  /\ Goes(a, "verifying", "materialized")
  /\ Verified(a)
  /\ UNCHANGED <<container, root, ids, branchAt, registry, handle, adding>>

\* writeOwnedContextFile: created exclusively, then written, each on its own check.
CreateContext(a) ==
  /\ Goes(a, "materialized", "created")
  /\ Verified(a) /\ root.file = NoFile
  /\ ids' = ids + 1
  /\ root' = [root EXCEPT !.file = [id |-> ids', bytes |-> "none"]]
  /\ handle' = [handle EXCEPT ![a].file = ids']
  /\ UNCHANGED <<container, branchAt, registry, adding>>
WriteContext(a) ==
  /\ Goes(a, "created", "written")
  /\ Verified(a) /\ root.file.id = handle[a].file
  /\ root' = [root EXCEPT !.file.bytes = "written"]
  /\ UNCHANGED <<container, ids, branchAt, registry, handle, adding>>
CheckContext(a) ==
  /\ Goes(a, "written", "ready")
  /\ Verified(a) /\ SameFile(a)
  /\ UNCHANGED <<container, root, ids, branchAt, registry, handle, adding>>

\* assertOwnedContextForLaunch, and the local check with the spawn behind it.
CheckLaunch(a) ==
  /\ Goes(a, "ready", "launching")
  /\ Verified(a) /\ SameFile(a)
  /\ UNCHANGED <<container, root, ids, branchAt, registry, handle, adding>>
LaunchInRoot(a) ==
  /\ Goes(a, "launching", "launched")
  /\ SameTarget(a) /\ SameFile(a)
  /\ UNCHANGED <<container, root, ids, branchAt, registry, handle, adding>>

\* A check that fails, an error, an abort, a crash: nothing is removed, and a Git
\* that could not be stopped goes on.
AttemptFails(a) ==
  /\ at[a] \notin {"idle", "failed", "launched"}
  /\ at' = [at EXCEPT ![a] = "failed"]
  /\ adding' \in {adding, [adding EXCEPT ![a] = "failed"]}
  /\ UNCHANGED <<diskVars, handle, meddled>>

-----------------------------------------------------------------------------
(* `git worktree add -b branch -- root commit` *)

\* It refuses a branch that exists and a directory that is not empty.
GitBranches(a) ==
  /\ adding[a] = "asked"
  /\ IF branchAt = 0 /\ (root = NoRoot \/ root.has = "nothing") /\ ~registry
       THEN /\ branchAt' = handle[a].commit
            /\ adding' = [adding EXCEPT ![a] = "branched"]
       ELSE /\ adding' = [adding EXCEPT ![a] = "failed"]
            /\ UNCHANGED branchAt
  /\ UNCHANGED <<container, root, ids, source, registry, at, handle, meddled>>

\* A directory that is gone by then it makes itself.
GitChecksOut(a) ==
  /\ adding[a] = "branched"
  /\ IF root = NoRoot \/ root.has = "nothing"
       THEN LET made == IF root = NoRoot THEN NewRoot(ids + 1, "git") ELSE root
            IN /\ root' = [made EXCEPT !.of = a, !.has = "checkout", !.onBranch = TRUE]
               /\ ids' = IF root = NoRoot THEN ids + 1 ELSE ids
               /\ registry' = TRUE
               /\ adding' = [adding EXCEPT ![a] = "done"]
       ELSE /\ adding' = [adding EXCEPT ![a] = "failed"]
            /\ UNCHANGED <<root, ids, registry>>
  /\ UNCHANGED <<container, branchAt, source, at, handle, meddled>>

-----------------------------------------------------------------------------
(* Other processes *)

Others(does) ==
  /\ meddled < LastMeddle
  /\ meddled' = meddled + 1
  /\ does
  /\ UNCHANGED <<at, handle, adding>>

\* The root is made, emptied or replaced, its parent too, an unrelated file
\* appears, the context file is rewritten or replaced, commits are made.
TheirRoot ==
  /\ container # 0
  /\ ids' = ids + 1
  /\ \E has \in {"nothing", "other"} : root' = [NewRoot(ids', "others") EXCEPT !.has = has]
  /\ registry' \in {registry, FALSE}
  /\ UNCHANGED <<container, branchAt, source>>
RootRemoved ==
  /\ root # NoRoot
  /\ root' = NoRoot /\ registry' \in {registry, FALSE}
  /\ UNCHANGED <<container, ids, branchAt, source>>
TheirParent ==
  /\ ids' = ids + 1
  /\ container' = ids'
  /\ root' = NoRoot /\ registry' \in {registry, FALSE}
  /\ UNCHANGED <<branchAt, source>>
TheirFiles ==
  /\ root # NoRoot
  /\ \/ root.has = "nothing" /\ root' = [root EXCEPT !.has = "other"] /\ UNCHANGED ids
     \/ root.file # NoFile /\ root' = [root EXCEPT !.file.bytes = "other"] /\ UNCHANGED ids
     \/ /\ root.has = "checkout"
        /\ ids' = ids + 1
        /\ root' = [root EXCEPT !.file = [id |-> ids', bytes |-> "other"]]
  /\ UNCHANGED <<container, branchAt, source, registry>>
TheirCommits ==
  /\ \/ source = 1 /\ source' = 2 /\ UNCHANGED <<branchAt, root>>
     \/ branchAt = 0 /\ branchAt' = source /\ UNCHANGED <<source, root>>
     \/ branchAt # 0 /\ branchAt' \in {0, 1, 2} \ {branchAt} /\ UNCHANGED <<source, root>>
     \/ /\ root # NoRoot /\ root.onBranch
        /\ root' = [root EXCEPT !.onBranch = FALSE]
        /\ UNCHANGED <<branchAt, source>>
  /\ UNCHANGED <<container, ids, registry>>

WorkNext ==
  \/ \E a \in WorkAttempts :
       \/ Provision(a) \/ ProvisionEnds(a)
       \/ Preflight(a) \/ PreflightEnds(a) \/ Prepare(a) \/ Recheck(a) \/ ClaimRoot(a)
       \/ Materialize(a) \/ AddWorktree(a) \/ AddEnds(a) \/ VerifyWorktree(a)
       \/ CreateContext(a) \/ WriteContext(a) \/ CheckContext(a)
       \/ CheckLaunch(a) \/ LaunchInRoot(a) \/ AttemptFails(a)
       \/ GitBranches(a) \/ GitChecksOut(a)
  \/ Others(TheirRoot) \/ Others(RootRemoved) \/ Others(TheirParent)
  \/ Others(TheirFiles) \/ Others(TheirCommits)

-----------------------------------------------------------------------------
(* Properties *)

\* Every step of an attempt after its mkdir works in the directory it made
\* itself, and every step after the materialization in its own checkout of the
\* commit it prepared: not in one that another attempt, its Git left running,
\* or another process put there.
WorksInItsOwn ==
  \A a \in WorkAttempts :
    at'[a] \notin {at[a], "failed"} =>
      /\ at[a] \in {"reserved", "materializing", "adding", "verifying", "materialized",
                    "created", "written", "ready", "launching"} => root.by = a
      /\ at[a] \in {"verifying", "materialized", "created", "written", "ready", "launching"} =>
           root.of = a

\* The agent is launched beside the context that was written for it.
LaunchedWithItsContext ==
  \A a \in WorkAttempts :
    at[a] = "launching" /\ at'[a] = "launched" =>
      root.file = [id |-> handle[a].file, bytes |-> "written"] /\ handle[a].file # 0

\* No attempt, retry or Git of one touches what it did not make: a directory at
\* the root stays, with what others put in it.
NothingTakenOver ==
  meddled' = meddled /\ root # NoRoot =>
    /\ root'.id = root.id
    /\ root.has # "nothing" => root'.has = root.has
    /\ root.file # NoFile =>
         \/ root'.file = root.file
         \/ \E a \in WorkAttempts : root'.file.id = root.file.id /\ handle[a].file = root.file.id

\* All of it, of owned-git.ts and the attempts of a run: verdicts of Git are true,
\* and each step of an attempt works in what that attempt made.
OwnedHolds ==
  [][GitVerdictTrue' /\ WorksInItsOwn /\ LaunchedWithItsContext /\ NothingTakenOver
    ]_<<gitVars, workVars>>

=============================================================================
